---- MODULE Spec2Model ----
(***************************************************************************)
(* SmartScope analysis pipeline of Instabids-Management (api/services,     *)
(* api/models): image ingestion, prompt composition, response extraction,  *)
(* confidence estimation, persistence, cost monitoring and feedback.       *)
(*                                                                         *)
(* Conventions of the model                                                *)
(*   - a Python str that the code transforms (category, severity) is a     *)
(*     sequence of one-character strings, so that str.title() and          *)
(*     str.strip() are computed, not assumed;                              *)
(*   - a Python dict whose keys may be absent is a TLA+ function whose      *)
(*     DOMAIN is the set of keys present;                                  *)
(*   - a score in [0,1] with two decimals is an integer number of          *)
(*     hundredths; money is an integer number of 1e-4 USD (the precision   *)
(*     of estimate_cost); time is an integer number of hours.              *)
(***************************************************************************)
EXTENDS Integers, Sequences, FiniteSets, TLC

VARIABLES analyses, feedback, costs, monitor, now, last, arg, inflight, admitted

vars == <<analyses, feedback, costs, monitor, now, last, arg, inflight, admitted>>

(***************************************************************************)
(* Python values                                                           *)
(***************************************************************************)
\* Python None, and a Python number, as JSON values of the model reply.
NoneVal == [t |-> "None"]

Num(v) == [t |-> "num", v |-> v]

IsNumber(x) == x.t = "num"

\* dict.get(key, default) and dict.setdefault(key, default)
Get(d, k, default) == IF k \in DOMAIN d THEN d[k] ELSE default

SetDefault(d, k, v) == IF k \in DOMAIN d THEN d ELSE (k :> v) @@ d

Min(a, b) == IF a <= b THEN a ELSE b

Max(a, b) == IF a >= b THEN a ELSE b

\* round(n/d) to the nearest integer, ties to even (Python's round), n >= 0, d > 0
RoundDiv(n, d) ==
    LET q == n \div d
        r == n % d
    IN  IF 2 * r < d THEN q
        ELSE IF 2 * r > d THEN q + 1
        ELSE IF q % 2 = 0 THEN q ELSE q + 1

RECURSIVE SumSeq(_)
SumSeq(s) == IF s = <<>> THEN 0 ELSE Head(s) + SumSeq(Tail(s))

(***************************************************************************)
(* Python str methods used by the validators                               *)
(***************************************************************************)
LowerLetters ==
    <<"a", "b", "c", "d", "e", "f", "g", "h", "i", "j", "k", "l", "m",
      "n", "o", "p", "q", "r", "s", "t", "u", "v", "w", "x", "y", "z">>

UpperLetters ==
    <<"A", "B", "C", "D", "E", "F", "G", "H", "I", "J", "K", "L", "M",
      "N", "O", "P", "Q", "R", "S", "T", "U", "V", "W", "X", "Y", "Z">>

\* lower -> upper and upper -> lower, as lookup tables
ToUpperMap ==
    [c \in {LowerLetters[i] : i \in 1..Len(LowerLetters)} |->
        UpperLetters[CHOOSE i \in 1..Len(LowerLetters) : LowerLetters[i] = c]]

ToLowerMap ==
    [c \in {UpperLetters[i] : i \in 1..Len(UpperLetters)} |->
        LowerLetters[CHOOSE i \in 1..Len(UpperLetters) : UpperLetters[i] = c]]

IsLower(c) == c \in DOMAIN ToUpperMap

IsUpper(c) == c \in DOMAIN ToLowerMap

ToUpper(c) == IF IsLower(c) THEN ToUpperMap[c] ELSE c

ToLower(c) == IF IsUpper(c) THEN ToLowerMap[c] ELSE c

\* str.title(): a cased character is upper-cased when the previous character
\* is uncased (or there is none) and lower-cased when it follows a cased one.
RECURSIVE TitleFrom(_, _)
TitleFrom(s, previous_is_cased) ==
    IF s = <<>> THEN <<>>
    ELSE LET c == Head(s)
             cased == IsLower(c) \/ IsUpper(c)
             out == IF ~cased THEN c
                    ELSE IF previous_is_cased THEN ToLower(c) ELSE ToUpper(c)
         IN  <<out>> \o TitleFrom(Tail(s), cased)

Title(s) == TitleFrom(s, FALSE)

\* str.strip(): leading and trailing whitespace removed
RECURSIVE LStrip(_)
LStrip(s) == IF s # <<>> /\ Head(s) = " " THEN LStrip(Tail(s)) ELSE s

RECURSIVE RStrip(_)
RStrip(s) ==
    IF s # <<>> /\ s[Len(s)] = " " THEN RStrip(SubSeq(s, 1, Len(s) - 1)) ELSE s

Strip(s) == RStrip(LStrip(s))

(***************************************************************************)
(* api/services/smartscope_config.py                                       *)
(***************************************************************************)
K_Plumbing == <<"P", "l", "u", "m", "b", "i", "n", "g">>

K_Electrical == <<"E", "l", "e", "c", "t", "r", "i", "c", "a", "l">>

K_HVAC == <<"H", "V", "A", "C">>

K_Roofing == <<"R", "o", "o", "f", "i", "n", "g">>

K_Flooring == <<"F", "l", "o", "o", "r", "i", "n", "g">>

K_Appliances == <<"A", "p", "p", "l", "i", "a", "n", "c", "e", "s">>

K_General == <<"G", "e", "n", "e", "r", "a", "l", " ",
               "M", "a", "i", "n", "t", "e", "n", "a", "n", "c", "e">>

CategoryKeys ==
    {K_Plumbing, K_Electrical, K_HVAC, K_Roofing, K_Flooring, K_Appliances, K_General}

\* Each guidance block is named by its first line.
CATEGORY_GUIDANCE ==
    [k \in CategoryKeys |->
        CASE k = K_Plumbing   -> "For plumbing issues:"
          [] k = K_Electrical -> "For electrical issues:"
          [] k = K_HVAC       -> "For HVAC systems:"
          [] k = K_Roofing    -> "For roofing issues:"
          [] k = K_Flooring   -> "For flooring issues:"
          [] k = K_Appliances -> "For appliance issues:"
          [] k = K_General    -> "For general maintenance:"]

CATEGORY_SCOPE_TEMPLATES ==
    [k \in CategoryKeys |->
        CASE k = K_Plumbing ->
                <<"Shut off water supply to affected area",
                  "Assess extent of water damage",
                  "Remove and replace damaged components",
                  "Test system for leaks and proper operation",
                  "Restore water service and clean up work area">>
          [] k = K_Electrical ->
                <<"Turn off power at circuit breaker",
                  "Test circuits and identify issues",
                  "Replace or repair electrical components",
                  "Install new wiring per code requirements",
                  "Test system and restore power">>
          [] k = K_HVAC ->
                <<"Diagnose system operation and performance",
                  "Replace filters and clean components",
                  "Repair or replace faulty parts",
                  "Test system operation and airflow",
                  "Schedule regular maintenance follow-up">>
          [] k = K_Roofing ->
                <<"Inspect roof structure and materials",
                  "Remove damaged roofing materials",
                  "Install new roofing and flashing",
                  "Seal and weatherproof installation",
                  "Clean up debris and test drainage">>
          [] k = K_Flooring ->
                <<"Remove damaged flooring materials",
                  "Inspect and repair subfloor if needed",
                  "Install new flooring materials",
                  "Trim and finish installation",
                  "Clean and protect new flooring">>
          [] k = K_Appliances ->
                <<"Disconnect and remove old appliance",
                  "Prepare installation area",
                  "Install new appliance and connections",
                  "Test operation and safety features",
                  "Provide warranty and maintenance information">>
          [] k = K_General ->
                <<"Assess overall condition and safety",
                  "Complete necessary repairs and improvements",
                  "Test all affected systems",
                  "Clean and restore work areas",
                  "Document completed work and recommendations">>]

build_category_guidance(category) ==
    IF category \in DOMAIN CATEGORY_GUIDANCE
    THEN CATEGORY_GUIDANCE[category]
    ELSE CATEGORY_GUIDANCE[K_General]

(***************************************************************************)
(* The world outside the service: remote photos, users, projects           *)
(***************************************************************************)
\* Optional identifier that is None
Nil == "None"

\* What an HTTP GET of each photo URL yields: a decodable image of the given
\* size, an HTTP error (raise_for_status), or bytes that are no image.
Remote ==
    [u \in {"https://cdn/large.jpg", "https://cdn/small.jpg", "https://cdn/pano.jpg",
            "https://cdn/missing.jpg", "https://cdn/corrupt.jpg"} |->
        CASE u = "https://cdn/large.jpg"   -> [status |-> "image", width |-> 4000, height |-> 3000]
          [] u = "https://cdn/small.jpg"   -> [status |-> "image", width |-> 640, height |-> 480]
          [] u = "https://cdn/pano.jpg"    -> [status |-> "image", width |-> 3200, height |-> 1000]
          [] u = "https://cdn/missing.jpg" -> [status |-> "http_error", width |-> 0, height |-> 0]
          [] u = "https://cdn/corrupt.jpg" -> [status |-> "not_an_image", width |-> 0, height |-> 0]]

\* Authenticated users (api/models/user.py: id, role, organization_id)
Users ==
    { [id |-> "u1", role |-> "manager", organization_id |-> "org1"],
      [id |-> "u2", role |-> "manager", organization_id |-> "org1"],
      [id |-> "u3", role |-> "admin",   organization_id |-> "org2"],
      [id |-> "u4", role |-> "owner",   organization_id |-> Nil] }

\* Rows of the projects and properties tables (read only by this service)
projects ==
    { [id |-> "p1", property_id |-> "prop1"],
      [id |-> "p2", property_id |-> "prop2"],
      [id |-> "p3", property_id |-> "prop9"],
      [id |-> "p4", property_id |-> Nil] }

properties ==
    { [id |-> "prop1", organization_id |-> "org1", manager_id |-> "u1"],
      [id |-> "prop2", organization_id |-> "org2", manager_id |-> Nil] }

(***************************************************************************)
(* api/services/openai_vision.py: ImagePreprocessor                        *)
(***************************************************************************)
max_dimension == 1600

\* Image.thumbnail((1600, 1600)): the longest edge becomes 1600 and the other
\* edge is scaled by the same factor (at least 1 pixel).
Thumbnail(w, h) ==
    IF Max(w, h) <= max_dimension THEN [width |-> w, height |-> h]
    ELSE IF w >= h
         THEN [width |-> max_dimension, height |-> Max(1, (max_dimension * h) \div w)]
         ELSE [width |-> Max(1, (max_dimension * w) \div h), height |-> max_dimension]

\* _estimate_quality, in hundredths:
\*   round(min(1.0, 0.1 + (w*h/1e6)/12) * ratio_penalty, 2)
\* ratio_penalty is 1.0 if max/max(1,min) < 2.2 else 0.85.
estimate_quality(width, height) ==
    LET long == Max(width, height)
        short == Max(1, Min(width, height))
        ratio_penalty == IF 10 * long < 22 * short THEN 100 ELSE 85
        capped == Min(12000000, 1200000 + width * height)
    IN  RoundDiv(capped * ratio_penalty, 12000000)

\* _process_single: the ProcessedImage of a URL, or the exception it raises
process_single(url) ==
    LET r == Remote[url]
        size == Thumbnail(r.width, r.height)
    IN  IF r.status # "image" THEN [ok |-> FALSE, source_url |-> url]
        ELSE [ok |-> TRUE, source_url |-> url,
              width |-> size.width, height |-> size.height,
              quality_score |-> estimate_quality(size.width, size.height)]

\* preprocess: gather(*tasks, return_exceptions=True), then keep the
\* ProcessedImage results in the order of the URLs
RECURSIVE KeepProcessed(_)
KeepProcessed(results) ==
    IF results = <<>> THEN <<>>
    ELSE IF Head(results).ok
         THEN <<Head(results)>> \o KeepProcessed(Tail(results))
         ELSE KeepProcessed(Tail(results))

preprocess(image_urls) ==
    KeepProcessed([i \in 1..Len(image_urls) |-> process_single(image_urls[i])])

(***************************************************************************)
(* api/models/smartscope.py: AnalysisRequest                               *)
(***************************************************************************)
normalise_category(value) == Title(Strip(value))

\* The validated request built from a raw payload
AnalysisRequest(raw) == [raw EXCEPT !.category = normalise_category(raw.category)]

(***************************************************************************)
(* api/services/openai_vision.py: OpenAIVisionService                      *)
(***************************************************************************)
\* _build_user_prompt: the interpolated parts of the prompt text
build_user_prompt(request, images) ==
    [category |-> request.category,
     quality_scores |-> [i \in 1..Len(images) |-> images[i].quality_score],
     guidance |-> build_category_guidance(request.category),
     templates |-> IF request.category \in DOMAIN CATEGORY_SCOPE_TEMPLATES
                   THEN CATEGORY_SCOPE_TEMPLATES[request.category]
                   ELSE <<>>]

\* _build_prompt_payload: the prompt and one input_image per processed image
build_prompt_payload(request, images) ==
    [prompt |-> build_user_prompt(request, images),
     image_inputs |-> [i \in 1..Len(images) |-> images[i].source_url]]

\* _calculate_confidence, in hundredths
calculate_confidence(data, images) ==
    LET base_confidence == Get(data, "confidence", NoneVal)
        n == Max(Len(images), 1)
        quality_sum == SumSeq([i \in 1..Len(images) |-> images[i].quality_score])
        scope_items == Get(data, "scope_items", <<>>)
        detail_bonus == IF Len(scope_items) >= 3 THEN 50 * n ELSE 0
    IN  IF IsNumber(base_confidence)
        THEN Max(0, Min(100, base_confidence.v))
        ELSE RoundDiv(Min(1000 * n, 600 * n + 3 * quality_sum + detail_bonus), 10 * n)

(***************************************************************************)
(* The external model: what client.responses.create can do with a request  *)
(***************************************************************************)
S_High == <<"H", "i", "g", "h">>

S_high == <<"h", "i", "g", "h">>

S_urgent == <<"u", "r", "g", "e", "n", "t">>

S_Low == <<"L", "o", "w">>

S_Medium == <<"M", "e", "d", "i", "u", "m">>

S_Emergency == <<"E", "m", "e", "r", "g", "e", "n", "c", "y">>

ScopeItemsOf(n) == [i \in 1..n |-> [title |-> "Task", estimated_hours |-> i]]

\* A scope item carrying every field of ScopeItem and one key outside it,
\* and a materials list whose second entry carries only a name
DetailedScopeItems ==
    << [title |-> "Replace P-trap",
        description |-> "Remove existing trap and install new PVC trap",
        trade |-> "Plumbing",
        materials |-> <<"PVC P-trap">>,
        safety_notes |-> <<"Shut off water">>,
        estimated_hours |-> 2,
        priority |-> "soon"] >>

DetailedMaterials ==
    << [name |-> "PVC P-trap", quantity |-> "1", specifications |-> "1.5 inch"],
       [name |-> "Thread seal tape"] >>

\* A reply is a transport error, a response object of an unexpected shape, a
\* text that is not JSON, a text that is JSON but no object (a list, a number,
\* a string), or a text that parses to the dict `data`.
\* elapsed_ms is the time analyse measures from its start to the reply.
ModelReplies ==
    { [kind |-> "error"],
      [kind |-> "unexpected_format"],
      [kind |-> "not_json"],
      [kind |-> "not_an_object"],
      [kind |-> "json", total_tokens |-> Num(200), elapsed_ms |-> Num(3200),
       data |-> ("severity" :> S_High) @@ ("confidence" :> Num(91))
                @@ ("scope_items" :> ScopeItemsOf(1))],
      [kind |-> "json", total_tokens |-> NoneVal, elapsed_ms |-> Num(950),
       data |-> ("severity" :> S_high) @@ ("scope_items" :> ScopeItemsOf(3))],
      [kind |-> "json", total_tokens |-> Num(120), elapsed_ms |-> Num(1800),
       data |-> ("severity" :> S_urgent) @@ ("confidence" :> Num(0 - 20))],
      [kind |-> "json", total_tokens |-> Num(0), elapsed_ms |-> Num(400),
       data |-> ("confidence" :> Num(170)) @@ ("scope_items" :> ScopeItemsOf(1))],
      [kind |-> "json", total_tokens |-> Num(200), elapsed_ms |-> Num(2600),
       data |-> ("severity" :> S_Low) @@ ("confidence" :> NoneVal)
                @@ ("scope_items" :> ScopeItemsOf(3))],
      [kind |-> "json", total_tokens |-> Num(0), elapsed_ms |-> Num(3200),
       data |-> ("severity" :> S_Medium) @@ ("confidence" :> Num(80))
                @@ ("scope_items" :> DetailedScopeItems)
                @@ ("materials" :> DetailedMaterials)] }

NoReply == [kind |-> "none"]

smartscope_model == "gpt-4.1-mini"

\* analyse without the check that at least one image was processed
analyse_without_image_check(request, reply) ==
    LET processed_images == preprocess(request.photo_urls)
        payload == build_prompt_payload(request, processed_images)
        data0 == reply.data
        data1 == SetDefault(data0, "confidence",
                            Num(calculate_confidence(data0, processed_images)))
        data2 == SetDefault(data1, "additional_observations", <<>>)
        data3 == SetDefault(data2, "materials", <<>>)
        data4 == SetDefault(data3, "scope_items", <<>>)
    IN  IF reply.kind = "error"
        THEN [raised |-> "RuntimeError: Failed to analyse photos with OpenAI Vision",
              model_calls |-> 1, images |-> processed_images, payload |-> payload]
        ELSE IF reply.kind = "unexpected_format"
        THEN [raised |-> "ValueError: Unexpected OpenAI response format",
              model_calls |-> 1, images |-> processed_images, payload |-> payload]
        ELSE IF reply.kind = "not_json"
        THEN [raised |-> "JSONDecodeError",
              model_calls |-> 1, images |-> processed_images, payload |-> payload]
        ELSE IF reply.kind = "not_an_object"
        THEN [raised |-> "AttributeError: object has no attribute 'setdefault'",
              model_calls |-> 1, images |-> processed_images, payload |-> payload]
        ELSE [raised |-> "",
              model_calls |-> 1, images |-> processed_images, payload |-> payload,
              analysis |-> data4,
              metadata |-> [model_version |-> smartscope_model,
                            processing_status |-> "completed",
                            processing_time_ms |-> reply.elapsed_ms,
                            tokens_used |-> reply.total_tokens]]

\* analyse that sends the request a second time when the model call fails
analyse_retrying(request, reply) ==
    LET processed_images == preprocess(request.photo_urls)
        payload == build_prompt_payload(request, processed_images)
        data0 == reply.data
        data1 == SetDefault(data0, "confidence",
                            Num(calculate_confidence(data0, processed_images)))
        data2 == SetDefault(data1, "additional_observations", <<>>)
        data3 == SetDefault(data2, "materials", <<>>)
        data4 == SetDefault(data3, "scope_items", <<>>)
    IN  IF processed_images = <<>>
        THEN [raised |-> "ValueError: No valid images were processed for analysis",
              model_calls |-> 0, images |-> processed_images]
        ELSE IF reply.kind = "error"
        THEN [raised |-> "RuntimeError: Failed to analyse photos with OpenAI Vision",
              model_calls |-> 2, images |-> processed_images, payload |-> payload]
        ELSE IF reply.kind = "unexpected_format"
        THEN [raised |-> "ValueError: Unexpected OpenAI response format",
              model_calls |-> 1, images |-> processed_images, payload |-> payload]
        ELSE IF reply.kind = "not_json"
        THEN [raised |-> "JSONDecodeError",
              model_calls |-> 1, images |-> processed_images, payload |-> payload]
        ELSE IF reply.kind = "not_an_object"
        THEN [raised |-> "AttributeError: object has no attribute 'setdefault'",
              model_calls |-> 1, images |-> processed_images, payload |-> payload]
        ELSE [raised |-> "",
              model_calls |-> 1, images |-> processed_images, payload |-> payload,
              analysis |-> data4,
              metadata |-> [model_version |-> smartscope_model,
                            processing_status |-> "completed",
                            processing_time_ms |-> reply.elapsed_ms,
                            tokens_used |-> reply.total_tokens]]

\* OpenAIVisionService.analyse: the dict it returns, or the exception it raises.
\* model_calls counts the calls of client.responses.create.
analyse(request, reply) ==
    LET processed_images == preprocess(request.photo_urls)
        payload == build_prompt_payload(request, processed_images)
        data0 == reply.data
        data1 == SetDefault(data0, "confidence",
                            Num(calculate_confidence(data0, processed_images)))
        data2 == SetDefault(data1, "additional_observations", <<>>)
        data3 == SetDefault(data2, "materials", <<>>)
        data4 == SetDefault(data3, "scope_items", <<>>)
    IN  IF processed_images = <<>>
        THEN [raised |-> "ValueError: No valid images were processed for analysis",
              model_calls |-> 0, images |-> processed_images]
        ELSE IF reply.kind = "error"
        THEN [raised |-> "RuntimeError: Failed to analyse photos with OpenAI Vision",
              model_calls |-> 1, images |-> processed_images, payload |-> payload]
        ELSE IF reply.kind = "unexpected_format"
        THEN [raised |-> "ValueError: Unexpected OpenAI response format",
              model_calls |-> 1, images |-> processed_images, payload |-> payload]
        ELSE IF reply.kind = "not_json"
        THEN [raised |-> "JSONDecodeError",
              model_calls |-> 1, images |-> processed_images, payload |-> payload]
        ELSE IF reply.kind = "not_an_object"
        THEN [raised |-> "AttributeError: object has no attribute 'setdefault'",
              model_calls |-> 1, images |-> processed_images, payload |-> payload]
        ELSE [raised |-> "",
              model_calls |-> 1, images |-> processed_images, payload |-> payload,
              analysis |-> data4,
              metadata |-> [model_version |-> smartscope_model,
                            processing_status |-> "completed",
                            processing_time_ms |-> reply.elapsed_ms,
                            tokens_used |-> reply.total_tokens]]

(***************************************************************************)
(* api/services/cost_monitor.py                                            *)
(***************************************************************************)
\* estimate_cost: round(tokens_used * 0.00001, 4), in units of 1e-4 USD
estimate_cost(tokens_used) == RoundDiv(tokens_used, 10)

\* track_analysis_cost that files the cost under another analysis id
track_analysis_cost_other_id(mon, cost_rows, analysis_id, cost, tokens_used, outcome, t) ==
    IF ~mon.supabase THEN cost_rows
    ELSE IF outcome = "raise" THEN cost_rows
    ELSE Append(cost_rows, [analysis_id |-> analysis_id + 1, api_cost |-> cost,
                            tokens_used |-> tokens_used, created_at |-> t])

\* track_analysis_cost: the cost collection after the call.  `outcome` is what
\* the insert does: "ok" or "raise" (logged, not raised).
track_analysis_cost(mon, cost_rows, analysis_id, cost, tokens_used, outcome, t) ==
    IF ~mon.supabase THEN cost_rows
    ELSE IF outcome = "raise" THEN cost_rows
    ELSE Append(cost_rows, [analysis_id |-> analysis_id, api_cost |-> cost,
                            tokens_used |-> tokens_used, created_at |-> t])

(***************************************************************************)
(* api/services/cost_monitor.py: budget status                             *)
(***************************************************************************)
HoursPerDay == 24

\* _fetch_costs_since: the rows with created_at >= since
fetch_costs_since(mon, cost_rows, since) ==
    IF ~mon.supabase THEN <<>>
    ELSE SelectSeq(cost_rows, LAMBDA r : r.created_at >= since)

\* _sum_costs_since
sum_costs_since(mon, cost_rows, since) ==
    LET records == fetch_costs_since(mon, cost_rows, since)
    IN  SumSeq([k \in 1..Len(records) |-> records[k].api_cost])

\* the comparison with >= in place of >
UsageAtLeast(total, budget, pct) == budget # 0 /\ 100 * total >= pct * budget

\* A comparison usage > pct, where usage = (total / budget) * 100 if budget else 0
UsageAbove(total, budget, pct) == budget # 0 /\ 100 * total > pct * budget

\* usage_percent rounded to 2 decimals, in hundredths of a percent
UsagePercent(total, budget) == IF budget # 0 THEN RoundDiv(10000 * total, budget) ELSE 0

\* check_budget_status at time t
check_budget_status(mon, cost_rows, t) ==
    LET daily_total == sum_costs_since(mon, cost_rows, t - 1 * HoursPerDay)
        monthly_total == sum_costs_since(mon, cost_rows, t - 30 * HoursPerDay)
        status ==
            IF \/ UsageAbove(daily_total, mon.daily_budget, 90)
               \/ UsageAbove(monthly_total, mon.monthly_budget, 90) THEN "red"
            ELSE IF \/ UsageAbove(daily_total, mon.daily_budget, 70)
                    \/ UsageAbove(monthly_total, mon.monthly_budget, 70) THEN "amber"
            ELSE "green"
    IN  IF ~mon.supabase THEN [status |-> "unavailable"]
        ELSE [status |-> status,
              daily_spend |-> daily_total,
              monthly_spend |-> monthly_total,
              daily_usage_percent |-> UsagePercent(daily_total, mon.daily_budget),
              monthly_usage_percent |-> UsagePercent(monthly_total, mon.monthly_budget)]

(***************************************************************************)
(* api/services/cost_monitor.py: cost report                               *)
(***************************************************************************)
DecimalDigits == <<"0", "1", "2", "3", "4", "5", "6", "7", "8", "9">>

IsDigit(c) == \E d \in 1..10 : DecimalDigits[d] = c

DigitValue(c) == (CHOOSE d \in 1..10 : DecimalDigits[d] = c) - 1

\* The number a nonempty sequence of decimal digits denotes
RECURSIVE DigitsValue(_)
DigitsValue(s) ==
    IF s = <<>> THEN 0
    ELSE 10 * DigitsValue(SubSeq(s, 1, Len(s) - 1)) + DigitValue(s[Len(s)])

\* int(text): surrounding blanks are dropped, one sign is accepted, and the
\* rest must be a nonempty run of decimal digits; anything else raises
\* ValueError (ok is FALSE).  Underscores between digits are not modelled.
ParseInt(text) ==
    LET body == Strip(text)
        signed == body # <<>> /\ Head(body) \in {"+", "-"}
        digits == IF signed THEN Tail(body) ELSE body
    IN  IF digits = <<>> \/ \E i \in 1..Len(digits) : ~IsDigit(digits[i])
        THEN [ok |-> FALSE]
        ELSE [ok |-> TRUE,
              v |-> IF signed /\ Head(body) = "-"
                    THEN 0 - DigitsValue(digits) ELSE DigitsValue(digits)]

\* str.lower() and str.endswith(one character)
Lower(s) == [i \in 1..Len(s) |-> ToLower(s[i])]

EndsWith(s, c) == s # <<>> /\ s[Len(s)] = c

\* generate_cost_report at time t: the report, or the exception raised.
\* Amounts are in 1e-4 USD, so round(x, 4) is rounding to a whole number.
generate_cost_report(mon, cost_rows, timeframe, t) ==
    LET lowered == Lower(timeframe)
        count == ParseInt(SubSeq(lowered, 1, Len(lowered) - 1))
        since == IF EndsWith(lowered, "d") THEN t - count.v * HoursPerDay
                 ELSE IF EndsWith(lowered, "w") THEN t - count.v * 7 * HoursPerDay
                 ELSE t - 30 * HoursPerDay
        records == fetch_costs_since(mon, cost_rows, since)
        total_cost == SumSeq([k \in 1..Len(records) |-> records[k].api_cost])
        analyses_count == Len(records)
    IN  IF ~mon.supabase
        THEN [raised |-> "", timeframe |-> timeframe, total_cost |-> 0,
              analyses |-> 0, average_cost |-> 0]
        ELSE IF (EndsWith(lowered, "d") \/ EndsWith(lowered, "w")) /\ ~count.ok
        THEN [raised |-> "ValueError: invalid literal for int() with base 10"]
        ELSE [raised |-> "", timeframe |-> lowered, total_cost |-> total_cost,
              analyses |-> analyses_count,
              average_cost |-> IF analyses_count # 0
                               THEN RoundDiv(total_cost, analyses_count) ELSE 0]

(***************************************************************************)
(* api/models/smartscope.py: SmartScopeAnalysis                            *)
(***************************************************************************)
SMARTSCOPE_SEVERITIES == {S_Emergency, S_High, S_Medium, S_Low}

SMARTSCOPE_SCOPE_ITEM_FIELDS ==
    {"title", "description", "trade", "materials", "safety_notes", "estimated_hours"}

SMARTSCOPE_MATERIAL_FIELDS == {"name", "quantity", "specifications"}

\* _validate_severity: the normalised severity, or <<>> when it raises
validate_severity(value) ==
    LET severity == Title(value)
    IN  IF severity \in SMARTSCOPE_SEVERITIES THEN severity ELSE <<>>

(***************************************************************************)
(* api/services/smartscope_service.py                                      *)
(***************************************************************************)
\* _get_project_and_property
get_project_and_property(project_id) ==
    LET project_rows == {p \in projects : p.id = project_id}
        project_record == CHOOSE p \in project_rows : TRUE
        property_rows == {q \in properties : q.id = project_record.property_id}
    IN  IF project_rows = {} THEN [raised |-> "404: Project not found"]
        ELSE IF project_record.property_id = Nil
        THEN [raised |-> "500: Project is missing associated property information"]
        ELSE IF property_rows = {}
        THEN [raised |-> "404: Property not found for project"]
        ELSE [raised |-> "", property_record |-> CHOOSE q \in property_rows : TRUE]

\* _ensure_project_access: "" when access is granted, else the HTTPException
ensure_project_access(project_id, current_user) ==
    LET found == get_project_and_property(project_id)
        property_record == found.property_record
    IN  IF found.raised # "" THEN found.raised
        ELSE IF /\ current_user.organization_id # Nil
                /\ property_record.organization_id # Nil
                /\ current_user.organization_id # property_record.organization_id
        THEN "403: You do not have access to this project"
        ELSE IF /\ current_user.role = "manager"
                /\ property_record.manager_id # Nil
                /\ property_record.manager_id # current_user.id
        THEN "403: Managers can only access their assigned projects"
        ELSE ""

\* OpenAIVisionService.build_scope_items with every title replaced by the default
build_scope_items_default_titles(record) ==
    LET items == Get(record, "scope_items", <<>>)
    IN  [i \in 1..Len(items) |->
            [title |-> "Task",
             description |-> Get(items[i], "description", ""),
             trade |-> Get(items[i], "trade", NoneVal),
             materials |-> Get(items[i], "materials", <<>>),
             safety_notes |-> Get(items[i], "safety_notes", <<>>),
             estimated_hours |-> Get(items[i], "estimated_hours", NoneVal)]]

\* OpenAIVisionService.build_scope_items / build_materials: each item is
\* rebuilt from the keys of the model class, absent keys get the defaults and
\* other keys are left out
build_scope_items(record) ==
    LET items == Get(record, "scope_items", <<>>)
    IN  [i \in 1..Len(items) |->
            [title |-> Get(items[i], "title", "Task"),
             description |-> Get(items[i], "description", ""),
             trade |-> Get(items[i], "trade", NoneVal),
             materials |-> Get(items[i], "materials", <<>>),
             safety_notes |-> Get(items[i], "safety_notes", <<>>),
             estimated_hours |-> Get(items[i], "estimated_hours", NoneVal)]]

build_materials(record) ==
    LET items == Get(record, "materials", <<>>)
    IN  [i \in 1..Len(items) |->
            [name |-> Get(items[i], "name", "Material"),
             quantity |-> Get(items[i], "quantity", NoneVal),
             specifications |-> Get(items[i], "specifications", NoneVal)]]

\* _extract_metadata
extract_metadata(record) ==
    LET raw == Get(record, "openai_response_raw", <<>>)
    IN  IF "metadata" \in DOMAIN raw THEN raw.metadata ELSE <<>>

\* _build_analysis_from_record: the SmartScopeAnalysis, or the pydantic
\* ValidationError of its constructor (severity validator, confidence bounds)
build_analysis_from_record(record, metadata) ==
    LET severity == validate_severity(Get(record, "severity", S_Medium))
        confidence_score == record.confidence_score
    IN  IF severity = <<>> \/ confidence_score < 0 \/ confidence_score > 100
        THEN [raised |-> "ValidationError"]
        ELSE [raised |-> "",
              value |->
                [id |-> record.id,
                 project_id |-> record.project_id,
                 photo_urls |-> record.photo_urls,
                 severity |-> severity,
                 category |-> record.category,
                 scope_items |-> build_scope_items(record),
                 materials |-> build_materials(record),
                 confidence_score |-> confidence_score,
                 metadata |->
                    [processing_status |-> Get(record, "processing_status", "completed"),
                     model_version |-> Get(metadata, "model_version", "unknown"),
                     tokens_used |-> Get(metadata, "tokens_used", NoneVal),
                     api_cost |-> Get(metadata, "api_cost", NoneVal),
                     processing_time_ms |-> Get(metadata, "processing_time_ms", NoneVal),
                     requested_by |-> NoneVal],
                 created_at |-> record.created_at,
                 updated_at |-> record.updated_at]]

\* an insert that gives every row the same id
InsertedAnalysis_reused_id(rows, insert_payload, t) ==
    insert_payload @@ [id |-> 1, created_at |-> t, updated_at |-> t]

\* table("smartscope_analyses").insert(payload): the row as stored, with the
\* id and timestamps the database generates
InsertedAnalysis(rows, insert_payload, t) ==
    insert_payload @@ [id |-> Len(rows) + 1, created_at |-> t, updated_at |-> t]

\* _track_costs
track_costs(mon, cost_rows, analysis_id, metadata, outcome, t) ==
    LET tokens_used == Get(metadata, "tokens_used", NoneVal)
    IN  IF tokens_used = NoneVal THEN cost_rows
        ELSE track_analysis_cost(mon, cost_rows, analysis_id,
                                 estimate_cost(tokens_used.v), tokens_used.v, outcome, t)

\* store_analysis that keeps one analysis per project: the new row takes the
\* place of an earlier row of the same project
store_analysis_upserting(payload, current_user, vision_result, insert_outcome, cost_outcome, rows, cost_rows, mon, t) ==
    LET analysis_payload == vision_result.analysis
        metadata_dict == vision_result.metadata
        confidence == Get(analysis_payload, "confidence", Num(0))
        insert_payload ==
            [project_id |-> payload.project_id,
             photo_urls |-> payload.photo_urls,
             severity |-> Get(analysis_payload, "severity", S_Medium),
             category |-> payload.category,
             scope_items |-> Get(analysis_payload, "scope_items", <<>>),
             materials |-> Get(analysis_payload, "materials", <<>>),
             confidence_score |-> confidence.v,
             openai_response_raw |-> [metadata |-> metadata_dict],
             processing_status |-> Get(metadata_dict, "processing_status", "completed")]
        stored == InsertedAnalysis(rows, insert_payload, t)
        same_project == {k \in 1..Len(rows) : rows[k].project_id = payload.project_id}
        rows_after == IF same_project = {} THEN Append(rows, stored)
                      ELSE [k \in 1..Len(rows) |->
                               IF k \in same_project THEN stored ELSE rows[k]]
        costs_after == track_costs(mon, cost_rows, stored.id, metadata_dict, cost_outcome, t)
        cost_inserts == IF metadata_dict.tokens_used # NoneVal /\ mon.supabase THEN 1 ELSE 0
        built == build_analysis_from_record(stored, metadata_dict)
        untouched == [analyses |-> rows, costs |-> cost_rows, cost_inserts |-> 0]
    IN  IF ~IsNumber(confidence)
        THEN [raised |-> "TypeError: float() argument must be a string or a real number",
              inserts |-> 0] @@ untouched
        ELSE IF insert_outcome = "raise"
        THEN [raised |-> "502: Failed to store SmartScope analysis", inserts |-> 1]
             @@ untouched
        ELSE IF insert_outcome = "no_data"
        THEN [raised |-> "500: SmartScope analysis persistence returned no data",
              inserts |-> 1] @@ untouched
        ELSE [raised |-> built.raised,
              inserts |-> 1,
              analyses |-> rows_after,
              costs |-> costs_after,
              cost_inserts |-> cost_inserts,
              returned |-> IF built.raised = "" THEN <<built.value>> ELSE <<>>]

\* store_analysis in which a failed cost insert takes the analysis back and
\* fails the request
store_analysis_cost_failure_fatal(payload, current_user, vision_result, insert_outcome, cost_outcome, rows, cost_rows, mon, t) ==
    LET analysis_payload == vision_result.analysis
        metadata_dict == vision_result.metadata
        confidence == Get(analysis_payload, "confidence", Num(0))
        insert_payload ==
            [project_id |-> payload.project_id,
             photo_urls |-> payload.photo_urls,
             severity |-> Get(analysis_payload, "severity", S_Medium),
             category |-> payload.category,
             scope_items |-> Get(analysis_payload, "scope_items", <<>>),
             materials |-> Get(analysis_payload, "materials", <<>>),
             confidence_score |-> confidence.v,
             openai_response_raw |-> [metadata |-> metadata_dict],
             processing_status |-> Get(metadata_dict, "processing_status", "completed")]
        stored == InsertedAnalysis(rows, insert_payload, t)
        rows_after == Append(rows, stored)
        costs_after == track_costs(mon, cost_rows, stored.id, metadata_dict, cost_outcome, t)
        cost_inserts == IF metadata_dict.tokens_used # NoneVal /\ mon.supabase THEN 1 ELSE 0
        built == build_analysis_from_record(stored, metadata_dict)
        untouched == [analyses |-> rows, costs |-> cost_rows, cost_inserts |-> 0]
    IN  IF ~IsNumber(confidence)
        THEN [raised |-> "TypeError: float() argument must be a string or a real number",
              inserts |-> 0] @@ untouched
        ELSE IF insert_outcome = "raise"
        THEN [raised |-> "502: Failed to store SmartScope analysis", inserts |-> 1]
             @@ untouched
        ELSE IF insert_outcome = "no_data"
        THEN [raised |-> "500: SmartScope analysis persistence returned no data",
              inserts |-> 1] @@ untouched
        ELSE IF cost_inserts = 1 /\ cost_outcome = "raise"
        THEN [raised |-> "502: Failed to record SmartScope cost", inserts |-> 1]
             @@ untouched
        ELSE [raised |-> built.raised,
              inserts |-> 1,
              analyses |-> rows_after,
              costs |-> costs_after,
              cost_inserts |-> cost_inserts,
              returned |-> IF built.raised = "" THEN <<built.value>> ELSE <<>>]

\* process_analysis, lines 138-192: build the record from the result of the
\* vision service, insert it, track the cost and build the returned analysis.
\* insert_outcome ("ok", "raise", "no_data") and cost_outcome ("ok", "raise")
\* are what the two inserts do.
store_analysis(payload, current_user, vision_result, insert_outcome, cost_outcome, rows, cost_rows, mon, t) ==
    LET analysis_payload == vision_result.analysis
        metadata_dict == vision_result.metadata
        confidence == Get(analysis_payload, "confidence", Num(0))
        insert_payload ==
            [project_id |-> payload.project_id,
             photo_urls |-> payload.photo_urls,
             severity |-> Get(analysis_payload, "severity", S_Medium),
             category |-> payload.category,
             scope_items |-> Get(analysis_payload, "scope_items", <<>>),
             materials |-> Get(analysis_payload, "materials", <<>>),
             confidence_score |-> confidence.v,
             openai_response_raw |-> [metadata |-> metadata_dict],
             processing_status |-> Get(metadata_dict, "processing_status", "completed")]
        stored == InsertedAnalysis(rows, insert_payload, t)
        rows_after == Append(rows, stored)
        costs_after == track_costs(mon, cost_rows, stored.id, metadata_dict, cost_outcome, t)
        cost_inserts == IF metadata_dict.tokens_used # NoneVal /\ mon.supabase THEN 1 ELSE 0
        built == build_analysis_from_record(stored, metadata_dict)
        untouched == [analyses |-> rows, costs |-> cost_rows, cost_inserts |-> 0]
    IN  IF ~IsNumber(confidence)
        THEN [raised |-> "TypeError: float() argument must be a string or a real number",
              inserts |-> 0] @@ untouched
        ELSE IF insert_outcome = "raise"
        THEN [raised |-> "502: Failed to store SmartScope analysis", inserts |-> 1]
             @@ untouched
        ELSE IF insert_outcome = "no_data"
        THEN [raised |-> "500: SmartScope analysis persistence returned no data",
              inserts |-> 1] @@ untouched
        ELSE [raised |-> built.raised,
              inserts |-> 1,
              analyses |-> rows_after,
              costs |-> costs_after,
              cost_inserts |-> cost_inserts,
              returned |-> IF built.raised = "" THEN <<built.value>> ELSE <<>>]

\* process_analysis with a hard budget gate in front of the pipeline
process_analysis_budget_gated(payload, current_user, reply, insert_outcome, cost_outcome, rows, cost_rows, mon, t) ==
    LET denied == ensure_project_access(payload.project_id, current_user)
        vision_result == analyse(payload, reply)
        stored == store_analysis(payload, current_user, vision_result, insert_outcome,
                                 cost_outcome, rows, cost_rows, mon, t)
        untouched == [analyses |-> rows, costs |-> cost_rows,
                      inserts |-> 0, cost_inserts |-> 0]
    IN  IF denied # ""
        THEN [raised |-> denied, model_calls |-> 0, fetches |-> 0] @@ untouched
        ELSE IF /\ payload.organization_id # Nil
                /\ current_user.organization_id # Nil
                /\ payload.organization_id # current_user.organization_id
        THEN [raised |-> "403: Organisation mismatch for SmartScope analysis",
              model_calls |-> 0, fetches |-> 0] @@ untouched
        ELSE IF check_budget_status(mon, cost_rows, t).status = "red"
        THEN [raised |-> "429: SmartScope budget exceeded",
              model_calls |-> 0, fetches |-> 0] @@ untouched
        ELSE IF vision_result.raised # ""
        THEN [raised |-> vision_result.raised, model_calls |-> vision_result.model_calls,
              fetches |-> Len(payload.photo_urls)] @@ untouched
        ELSE [model_calls |-> 1, fetches |-> Len(payload.photo_urls)] @@ stored

\* process_analysis that runs the vision service before the access checks
process_analysis_access_checked_last(payload, current_user, reply, insert_outcome, cost_outcome, rows, cost_rows, mon, t) ==
    LET denied == ensure_project_access(payload.project_id, current_user)
        vision_result == analyse(payload, reply)
        stored == store_analysis(payload, current_user, vision_result, insert_outcome,
                                 cost_outcome, rows, cost_rows, mon, t)
        untouched == [analyses |-> rows, costs |-> cost_rows,
                      inserts |-> 0, cost_inserts |-> 0]
    IN  IF vision_result.raised # ""
        THEN [raised |-> vision_result.raised, model_calls |-> vision_result.model_calls,
              fetches |-> Len(payload.photo_urls)] @@ untouched
        ELSE IF denied # ""
        THEN [raised |-> denied, model_calls |-> 1,
              fetches |-> Len(payload.photo_urls)] @@ untouched
        ELSE IF /\ payload.organization_id # Nil
                /\ current_user.organization_id # Nil
                /\ payload.organization_id # current_user.organization_id
        THEN [raised |-> "403: Organisation mismatch for SmartScope analysis",
              model_calls |-> 1, fetches |-> Len(payload.photo_urls)] @@ untouched
        ELSE [model_calls |-> 1, fetches |-> Len(payload.photo_urls)] @@ stored

\* process_analysis.  reply is what the external model does when called.  The
\* result carries the exception raised ("" on return), the collections after
\* the call and the number of calls made to each collaborator.
process_analysis(payload, current_user, reply, insert_outcome, cost_outcome, rows, cost_rows, mon, t) ==
    LET denied == ensure_project_access(payload.project_id, current_user)
        vision_result == analyse(payload, reply)
        stored == store_analysis(payload, current_user, vision_result, insert_outcome,
                                 cost_outcome, rows, cost_rows, mon, t)
        untouched == [analyses |-> rows, costs |-> cost_rows,
                      inserts |-> 0, cost_inserts |-> 0]
    IN  IF denied # ""
        THEN [raised |-> denied, model_calls |-> 0, fetches |-> 0] @@ untouched
        ELSE IF /\ payload.organization_id # Nil
                /\ current_user.organization_id # Nil
                /\ payload.organization_id # current_user.organization_id
        THEN [raised |-> "403: Organisation mismatch for SmartScope analysis",
              model_calls |-> 0, fetches |-> 0] @@ untouched
        ELSE IF vision_result.raised # ""
        THEN [raised |-> vision_result.raised, model_calls |-> vision_result.model_calls,
              fetches |-> Len(payload.photo_urls)] @@ untouched
        ELSE [model_calls |-> 1, fetches |-> Len(payload.photo_urls)] @@ stored

\* get_analysis: the analysis, or the exception raised
get_analysis(analysis_id, current_user, rows) ==
    LET found == {i \in 1..Len(rows) : rows[i].id = analysis_id}
        record == rows[CHOOSE i \in found : TRUE]
        denied == ensure_project_access(record.project_id, current_user)
        built == build_analysis_from_record(record, extract_metadata(record))
    IN  IF found = {} THEN [raised |-> "404: SmartScope analysis not found"]
        ELSE IF denied # "" THEN [raised |-> denied]
        ELSE built

\* The orders in which a select ... order("created_at", desc=True) may return
\* the rows numbered by idx: any order with created_at non-increasing (the
\* database leaves the order of equal timestamps open).
DescendingOrders(rows, idx) ==
    {o \in [1..Cardinality(idx) -> idx] :
        /\ \A i, j \in 1..Cardinality(idx) : i # j => o[i] # o[j]
        /\ \A i \in 1..(Cardinality(idx) - 1) :
              rows[o[i]].created_at >= rows[o[i + 1]].created_at}

\* list_analyses with the page number taken as zero-based
list_analyses_page_from_zero(project_id, current_user, page, per_page, rows, order) ==
    LET denied == ensure_project_access(project_id, current_user)
        offset == page * per_page
        records == [k \in 1..Max(0, Min(per_page, Len(order) - offset)) |->
                        rows[order[offset + k]]]
        built == [k \in 1..Len(records) |->
                    build_analysis_from_record(records[k], extract_metadata(records[k]))]
        total == IF Len(order) # 0 THEN Len(order) ELSE Len(records)
    IN  IF denied # "" THEN [raised |-> denied]
        ELSE IF \E k \in 1..Len(built) : built[k].raised # ""
        THEN [raised |-> "ValidationError"]
        ELSE [raised |-> "", analyses |-> [k \in 1..Len(built) |-> built[k].value],
              total |-> total]

\* list_analyses, given the order the database returned; range(offset,
\* offset + per_page - 1) keeps the rows at 0-based positions offset..offset+per_page-1
list_analyses(project_id, current_user, page, per_page, rows, order) ==
    LET denied == ensure_project_access(project_id, current_user)
        offset == (page - 1) * per_page
        records == [k \in 1..Max(0, Min(per_page, Len(order) - offset)) |->
                        rows[order[offset + k]]]
        built == [k \in 1..Len(records) |->
                    build_analysis_from_record(records[k], extract_metadata(records[k]))]
        total == IF Len(order) # 0 THEN Len(order) ELSE Len(records)
    IN  IF denied # "" THEN [raised |-> denied]
        ELSE IF \E k \in 1..Len(built) : built[k].raised # ""
        THEN [raised |-> "ValidationError"]
        ELSE [raised |-> "", analyses |-> [k \in 1..Len(built) |-> built[k].value],
              total |-> total]

\* submit_feedback without the access check on the referenced analysis
submit_feedback_unchecked(analysis_id, payload, current_user, insert_outcome, rows, feedback_rows, t) ==
    LET stored == [id |-> Len(feedback_rows) + 1,
                   analysis_id |-> analysis_id,
                   feedback_type |-> payload.feedback_type,
                   user_id |-> current_user.id,
                   accuracy_rating |-> payload.accuracy_rating,
                   created_at |-> t]
    IN  IF insert_outcome = "raise"
        THEN [raised |-> "502: Unable to submit feedback",
              feedback |-> feedback_rows, inserts |-> 1, analyses |-> rows]
        ELSE IF insert_outcome = "no_data"
        THEN [raised |-> "500: Feedback submission returned no data",
              feedback |-> feedback_rows, inserts |-> 1, analyses |-> rows]
        ELSE [raised |-> "", feedback |-> Append(feedback_rows, stored), inserts |-> 1,
              returned |-> stored, analyses |-> rows]

\* submit_feedback that marks the referenced analysis when the insert fails
submit_feedback_marking_analysis(analysis_id, payload, current_user, insert_outcome, rows, feedback_rows, t) ==
    LET checked == get_analysis(analysis_id, current_user, rows)
        stored == [id |-> Len(feedback_rows) + 1,
                   analysis_id |-> analysis_id,
                   feedback_type |-> payload.feedback_type,
                   user_id |-> current_user.id,
                   accuracy_rating |-> payload.accuracy_rating,
                   created_at |-> t]
        marked == [k \in 1..Len(rows) |->
                      IF rows[k].id = analysis_id
                      THEN [rows[k] EXCEPT !.processing_status = "feedback_failed"]
                      ELSE rows[k]]
    IN  IF checked.raised # ""
        THEN [raised |-> checked.raised, feedback |-> feedback_rows, inserts |-> 0,
              analyses |-> rows]
        ELSE IF insert_outcome = "raise"
        THEN [raised |-> "502: Unable to submit feedback",
              feedback |-> feedback_rows, inserts |-> 1, analyses |-> marked]
        ELSE IF insert_outcome = "no_data"
        THEN [raised |-> "500: Feedback submission returned no data",
              feedback |-> feedback_rows, inserts |-> 1, analyses |-> marked]
        ELSE [raised |-> "", feedback |-> Append(feedback_rows, stored), inserts |-> 1,
              returned |-> stored, analyses |-> rows]

\* submit_feedback.  insert_outcome is what the feedback insert does.  The
\* result carries both collections after the call: the function reads the
\* analyses (get_analysis) and writes only smartscope_feedback.
submit_feedback(analysis_id, payload, current_user, insert_outcome, rows, feedback_rows, t) ==
    LET checked == get_analysis(analysis_id, current_user, rows)
        stored == [id |-> Len(feedback_rows) + 1,
                   analysis_id |-> analysis_id,
                   feedback_type |-> payload.feedback_type,
                   user_id |-> current_user.id,
                   accuracy_rating |-> payload.accuracy_rating,
                   created_at |-> t]
    IN  IF checked.raised # ""
        THEN [raised |-> checked.raised, feedback |-> feedback_rows, inserts |-> 0, analyses |-> rows]
        ELSE IF insert_outcome = "raise"
        THEN [raised |-> "502: Unable to submit feedback",
              feedback |-> feedback_rows, inserts |-> 1, analyses |-> rows]
        ELSE IF insert_outcome = "no_data"
        THEN [raised |-> "500: Feedback submission returned no data",
              feedback |-> feedback_rows, inserts |-> 1, analyses |-> rows]
        ELSE [raised |-> "", feedback |-> Append(feedback_rows, stored), inserts |-> 1,
              returned |-> stored, analyses |-> rows]

\* get_accuracy_metrics (scores and ratings in hundredths, rounded to 2 decimals)
get_accuracy_metrics(rows, feedback_rows) ==
    LET scores(idx) == SumSeq([k \in 1..Len(rows) |->
                                  IF k \in idx THEN rows[k].confidence_score ELSE 0])
        all == 1..Len(rows)
        categories == {rows[k].category : k \in all}
        of(c) == {k \in all : rows[k].category = c}
        ratings == SumSeq([k \in 1..Len(feedback_rows) |-> feedback_rows[k].accuracy_rating])
        newest == CHOOSE k \in 1..Len(feedback_rows) :
                     \A j \in 1..Len(feedback_rows) :
                        feedback_rows[k].created_at >= feedback_rows[j].created_at
    IN  [total_analyses |-> Len(rows),
         average_confidence |-> IF Len(rows) > 0 THEN RoundDiv(scores(all), Len(rows)) ELSE 0,
         average_accuracy_rating |->
            IF Len(feedback_rows) > 0
            THEN Num(RoundDiv(100 * ratings, Len(feedback_rows))) ELSE NoneVal,
         category_accuracy |->
            [c \in categories |-> RoundDiv(scores(of(c)), Cardinality(of(c)))],
         last_feedback_at |->
            IF Len(feedback_rows) > 0 THEN Num(feedback_rows[newest].created_at) ELSE NoneVal]

(***************************************************************************)
(* api/routers/smartscope.py: the read endpoints                           *)
(***************************************************************************)
\* GET /smartscope/{analysis_id}: the handler calls service.get_analysis with
\* the analysis id only, while the method requires current_user as well, so
\* the call raises TypeError before the method body runs.
route_get_analysis(analysis_id, current_user, rows) ==
    [raised |-> "TypeError: get_analysis() missing 1 required positional argument: 'current_user'"]

\* GET /smartscope/project/{project_id}: the handler calls
\* service.list_analyses(project_id, page=page, per_page=per_page), again
\* without current_user.
route_list_project_analyses(project_id, page, per_page, current_user, rows) ==
    [raised |-> "TypeError: list_analyses() missing 1 required positional argument: 'current_user'"]

(***************************************************************************)
(* Bounds and inputs of the model                                          *)
(***************************************************************************)
MaxAnalyses == 2

MaxFeedback == 1

MaxClock == 1

C_plumbing == <<"p", "l", "u", "m", "b", "i", "n", "g">>

C_electrical_padded == <<" ", "e", "l", "e", "c", "t", "r", "i", "c", "a", "l", " ">>

C_pool == <<"P", "o", "o", "l">>

\* Raw request payloads, before AnalysisRequest validation
RawRequests ==
    { [project_id |-> "p1", photo_urls |-> <<"https://cdn/missing.jpg",
                                              "https://cdn/large.jpg",
                                              "https://cdn/small.jpg">>,
       category |-> C_plumbing, organization_id |-> Nil],
      [project_id |-> "p2", photo_urls |-> <<"https://cdn/pano.jpg">>,
       category |-> K_HVAC, organization_id |-> "org2"],
      [project_id |-> "p1", photo_urls |-> <<>>,
       category |-> C_electrical_padded, organization_id |-> "org1"],
      [project_id |-> "p2", photo_urls |-> <<"https://cdn/missing.jpg",
                                              "https://cdn/corrupt.jpg">>,
       category |-> C_pool, organization_id |-> "org1"],
      [project_id |-> "p3", photo_urls |-> <<"https://cdn/large.jpg">>,
       category |-> K_Roofing, organization_id |-> Nil],
      [project_id |-> "p4", photo_urls |-> <<"https://cdn/large.jpg">>,
       category |-> K_Roofing, organization_id |-> Nil],
      [project_id |-> "p0", photo_urls |-> <<"https://cdn/large.jpg">>,
       category |-> K_Roofing, organization_id |-> Nil] }

ProjectIds == {"p0", "p1", "p2", "p3", "p4"}

InsertOutcomes == {"ok", "raise", "no_data"}

CostOutcomes == {"ok", "raise"}

FeedbackPayloads ==
    { [feedback_type |-> "contractor", accuracy_rating |-> 5] }

\* CostMonitor(supabase, daily_budget, monthly_budget): the defaults of the
\* constructor (25.0 and 500.0 USD) without a client, and a monitor with a
\* client and a daily budget small enough to be exceeded by one analysis
Monitors ==
    { [supabase |-> FALSE, daily_budget |-> 250000, monthly_budget |-> 5000000],
      [supabase |-> TRUE, daily_budget |-> 15, monthly_budget |-> 0] }

\* The validated requests
Requests == {AnalysisRequest(raw) : raw \in RawRequests}

NoCall == [op |-> "none"]

NoArg == [kind |-> "none"]

(***************************************************************************)
(* The service as a state machine                                          *)
(***************************************************************************)
Init ==
    /\ analyses = <<>>
    /\ feedback = <<>>
    /\ costs = <<>>
    /\ monitor \in Monitors
    /\ now = 0
    /\ last = NoCall
    /\ arg = NoArg
    /\ inflight = <<>>
    /\ admitted = <<>>

\* The outcomes a collaborator can show in a call: all of them when the call
\* consults the collaborator, a single placeholder when it does not.
Consulted(calls, outcomes, placeholder) == IF calls > 0 THEN outcomes ELSE {placeholder}

AnyReply == CHOOSE reply \in ModelReplies : reply.kind = "json"

\* POST /smartscope/analyze
ProcessAnalysis ==
    /\ last = NoCall
    /\ Len(analyses) < MaxAnalyses
    /\ \E payload \in Requests, current_user \in Users :
       \E reply \in Consulted(process_analysis(payload, current_user, AnyReply, "ok", "ok",
                                  analyses, costs, monitor, now).model_calls,
                              ModelReplies, NoReply) :
       \E insert_outcome \in Consulted(process_analysis(payload, current_user, reply, "ok",
                                  "ok", analyses, costs, monitor, now).inserts,
                              InsertOutcomes, "") :
       \E cost_outcome \in Consulted(process_analysis(payload, current_user, reply,
                                  insert_outcome, "ok", analyses, costs, monitor,
                                  now).cost_inserts,
                              CostOutcomes, "") :
          LET r == process_analysis(payload, current_user, reply, insert_outcome,
                                    cost_outcome, analyses, costs, monitor, now)
          IN  /\ analyses' = r.analyses
              /\ costs' = r.costs
              /\ last' = [op |-> "process_analysis",
                          payload |-> payload,
                          user |-> current_user,
                          reply |-> reply,
                          insert_outcome |-> insert_outcome,
                          cost_outcome |-> cost_outcome,
                          raised |-> r.raised,
                          model_calls |-> r.model_calls,
                          fetches |-> r.fetches,
                          inserts |-> r.inserts,
                          cost_inserts |-> r.cost_inserts,
                          returned |-> IF r.raised = "" THEN r.returned ELSE <<>>,
                          analyses_before |-> analyses,
                          costs_before |-> costs,
                          feedback_before |-> feedback]
    /\ UNCHANGED <<feedback, monitor, now, arg, inflight, admitted>>

\* SmartScopeService.get_analysis called with a requester
GetAnalysis ==
    /\ last = NoCall
    /\ \E analysis_id \in 1..(MaxAnalyses + 1), current_user \in Users :
          LET r == get_analysis(analysis_id, current_user, analyses)
          IN  last' = [op |-> "get_analysis",
                       analysis_id |-> analysis_id,
                       user |-> current_user,
                       raised |-> r.raised,
                       returned |-> IF r.raised = "" THEN <<r.value>> ELSE <<>>,
                       analyses_before |-> analyses,
                       costs_before |-> costs,
                       feedback_before |-> feedback]
    /\ UNCHANGED <<analyses, feedback, costs, monitor, now, arg, inflight, admitted>>

\* SmartScopeService.list_analyses called with a requester
ListAnalyses ==
    /\ last = NoCall
    /\ \E project_id \in ProjectIds, current_user \in Users,
          page \in 1..2, per_page \in 1..2 :
          \E order \in DescendingOrders(analyses,
                          {i \in 1..Len(analyses) : analyses[i].project_id = project_id}) :
             LET r == list_analyses(project_id, current_user, page, per_page,
                                    analyses, order)
             IN  last' = [op |-> "list_analyses",
                          project_id |-> project_id,
                          user |-> current_user,
                          page |-> page,
                          per_page |-> per_page,
                          raised |-> r.raised,
                          returned |-> IF r.raised = "" THEN r.analyses ELSE <<>>,
                          total |-> IF r.raised = "" THEN r.total ELSE 0,
                          analyses_before |-> analyses,
                          costs_before |-> costs,
                          feedback_before |-> feedback]
    /\ UNCHANGED <<analyses, feedback, costs, monitor, now, arg, inflight, admitted>>

\* GET /smartscope/{analysis_id}
RouteGetAnalysis ==
    /\ last = NoCall
    /\ \E analysis_id \in 1..(MaxAnalyses + 1), current_user \in Users :
          LET r == route_get_analysis(analysis_id, current_user, analyses)
          IN  last' = [op |-> "GET /smartscope/{analysis_id}",
                       analysis_id |-> analysis_id,
                       user |-> current_user,
                       raised |-> r.raised,
                       returned |-> IF r.raised = "" THEN <<r.value>> ELSE <<>>,
                       analyses_before |-> analyses,
                       costs_before |-> costs,
                       feedback_before |-> feedback]
    /\ UNCHANGED <<analyses, feedback, costs, monitor, now, arg, inflight, admitted>>

\* GET /smartscope/project/{project_id}
RouteListProjectAnalyses ==
    /\ last = NoCall
    /\ \E project_id \in ProjectIds, current_user \in Users, page \in 1..2 :
          LET r == route_list_project_analyses(project_id, page, 2, current_user, analyses)
          IN  last' = [op |-> "GET /smartscope/project/{project_id}",
                       project_id |-> project_id,
                       user |-> current_user,
                       page |-> page,
                       per_page |-> 2,
                       raised |-> r.raised,
                       returned |-> IF r.raised = "" THEN r.analyses ELSE <<>>,
                       analyses_before |-> analyses,
                       costs_before |-> costs,
                       feedback_before |-> feedback]
    /\ UNCHANGED <<analyses, feedback, costs, monitor, now, arg, inflight, admitted>>

\* POST /smartscope/{analysis_id}/feedback
SubmitFeedback ==
    /\ last = NoCall
    /\ Len(feedback) < MaxFeedback
    /\ \E analysis_id \in 1..(MaxAnalyses + 1), payload \in FeedbackPayloads,
          current_user \in Users, insert_outcome \in InsertOutcomes :
          LET r == submit_feedback(analysis_id, payload, current_user, insert_outcome,
                                   analyses, feedback, now)
          IN  /\ feedback' = r.feedback
              /\ analyses' = r.analyses
              /\ last' = [op |-> "submit_feedback",
                          analysis_id |-> analysis_id,
                          payload |-> payload,
                          user |-> current_user,
                          insert_outcome |-> IF r.inserts > 0 THEN insert_outcome ELSE "",
                          raised |-> r.raised,
                          inserts |-> r.inserts,
                          analyses_before |-> analyses,
                          costs_before |-> costs,
                          feedback_before |-> feedback]
    /\ UNCHANGED <<costs, monitor, now, arg, inflight, admitted>>

\* GET /smartscope/analytics/accuracy
GetAccuracyMetrics ==
    /\ last = NoCall
    /\ last' = [op |-> "get_accuracy_metrics",
                raised |-> "",
                metrics |-> get_accuracy_metrics(analyses, feedback),
                analyses_before |-> analyses,
                costs_before |-> costs,
                feedback_before |-> feedback]
    /\ UNCHANGED <<analyses, feedback, costs, monitor, now, arg, inflight, admitted>>

\* The route handler hands the outcome of the call to the client
Respond ==
    /\ last # NoCall
    /\ last' = NoCall
    /\ UNCHANGED <<analyses, feedback, costs, monitor, now, arg, inflight, admitted>>

\* An hour passes
Tick ==
    /\ last = NoCall
    /\ now < MaxClock
    /\ now' = now + 1
    /\ UNCHANGED <<analyses, feedback, costs, monitor, last, arg, inflight, admitted>>

Next ==
    \/ ProcessAnalysis
    \/ GetAnalysis
    \/ ListAnalyses
    \/ RouteGetAnalysis
    \/ RouteListProjectAnalyses
    \/ SubmitFeedback
    \/ GetAccuracyMetrics
    \/ Respond
    \/ Tick

Spec == Init /\ [][Next]_vars

(***************************************************************************)
(* Prompt composition on its own: a request of any category and photo set  *)
(* is validated, its photos are ingested and the user prompt is built.     *)
(***************************************************************************)
C_hvac == <<"h", "v", "a", "c">>

PromptCategories == CategoryKeys \cup {C_plumbing, C_electrical_padded, C_hvac, C_pool}

PromptPhotoLists ==
    { <<"https://cdn/large.jpg">>,
      <<"https://cdn/small.jpg">>,
      <<"https://cdn/pano.jpg">>,
      <<"https://cdn/large.jpg", "https://cdn/pano.jpg">>,
      <<"https://cdn/small.jpg", "https://cdn/corrupt.jpg", "https://cdn/large.jpg">>,
      <<"https://cdn/missing.jpg", "https://cdn/large.jpg", "https://cdn/small.jpg">> }

PromptInit ==
    /\ analyses = <<>>
    /\ feedback = <<>>
    /\ costs = <<>>
    /\ monitor = [supabase |-> FALSE, daily_budget |-> 250000, monthly_budget |-> 5000000]
    /\ now = 0
    /\ last = NoCall
    /\ arg \in [kind : {"request"}, project_id : {"p1"}, photo_urls : PromptPhotoLists,
                category : PromptCategories, organization_id : {Nil}]
    /\ inflight = <<>>
    /\ admitted = <<>>

\* analyse, lines 113-117: ingestion and the prompt built for the model call
ComposePrompt ==
    /\ last = NoCall
    /\ LET request == AnalysisRequest([project_id |-> arg.project_id,
                                       photo_urls |-> arg.photo_urls,
                                       category |-> arg.category,
                                       organization_id |-> arg.organization_id])
           processed_images == preprocess(request.photo_urls)
       IN  last' = [op |-> "build_prompt_payload",
                    request |-> request,
                    images |-> processed_images,
                    payload |-> build_prompt_payload(request, processed_images)]
    /\ UNCHANGED <<analyses, feedback, costs, monitor, now, arg, inflight, admitted>>

PromptNext == ComposePrompt

SpecPrompt == PromptInit /\ [][PromptNext]_vars

(***************************************************************************)
(* The cost monitor on its own: costs are tracked, time passes, the budget  *)
(* status is read.                                                         *)
(***************************************************************************)
MaxCosts == 2

\* Token counts whose cost is 0.50, 0.70, 0.90 and 0.95 USD
BudgetTokens == {50000, 70000, 90000, 95000}

\* daily_budget 1.0 USD or 0, monthly_budget 2.0 USD or 0, with or without client
BudgetMonitors ==
    [supabase : BOOLEAN, daily_budget : {0, 10000}, monthly_budget : {0, 20000}]

\* The instants (in hours) at which something happens: around one day and
\* around thirty days after the first instants
TimePoints == {0, 1, 24, 25, 720, 721, 745}

BudgetInit ==
    /\ analyses = <<>>
    /\ feedback = <<>>
    /\ costs = <<>>
    /\ monitor \in BudgetMonitors
    /\ now = 0
    /\ last = NoCall
    /\ arg = NoArg
    /\ inflight = <<>>
    /\ admitted = <<>>

TrackAnalysisCost ==
    /\ last = NoCall
    /\ Len(costs) < MaxCosts
    /\ \E tokens_used \in BudgetTokens, outcome \in CostOutcomes :
          /\ costs' = track_analysis_cost(monitor, costs, Len(costs) + 1,
                                          estimate_cost(tokens_used), tokens_used,
                                          outcome, now)
          /\ last' = [op |-> "track_analysis_cost", tokens_used |-> tokens_used,
                      outcome |-> outcome, costs_before |-> costs]
    /\ UNCHANGED <<analyses, feedback, monitor, now, arg, inflight, admitted>>

CheckBudgetStatus ==
    /\ last = NoCall
    /\ last' = [op |-> "check_budget_status",
                result |-> check_budget_status(monitor, costs, now),
                costs_before |-> costs]
    /\ UNCHANGED <<analyses, feedback, costs, monitor, now, arg, inflight, admitted>>

\* The timeframe codes a caller passes: days, weeks, upper case, a bare
\* suffix, a word ending in d, a word with no suffix, a bare number, nothing
Timeframes ==
    { <<"1", "d">>, <<"3", "0", "d">>, <<"1", "W">>, <<"d">>, <<"w">>,
      <<"b", "a", "d">>, <<"m", "o", "n", "t", "h">>, <<"7">>, <<>> }

GenerateCostReport ==
    /\ last = NoCall
    /\ \E timeframe \in Timeframes :
          last' = [op |-> "generate_cost_report",
                   timeframe |-> timeframe,
                   result |-> generate_cost_report(monitor, costs, timeframe, now),
                   costs_before |-> costs]
    /\ UNCHANGED <<analyses, feedback, costs, monitor, now, arg, inflight, admitted>>

\* Time passes up to a later instant
Elapse ==
    /\ last = NoCall
    /\ \E t \in TimePoints : t > now /\ now' = t
    /\ UNCHANGED <<analyses, feedback, costs, monitor, last, arg, inflight, admitted>>

BudgetNext ==
    \/ TrackAnalysisCost
    \/ CheckBudgetStatus
    \/ GenerateCostReport
    \/ Respond
    \/ Elapse

SpecBudget == BudgetInit /\ [][BudgetNext]_vars

(***************************************************************************)
(* Requests in flight.  process_analysis is a coroutine: between its       *)
(* awaits the event loop runs other requests.  It suspends while the image *)
(* tasks of preprocess run (asyncio.gather) and while the model call is    *)
(* outstanding; the access checks before, and the insert, the cost         *)
(* tracking and the construction of the response after, run without        *)
(* suspension (the persistence client is synchronous).  Each request has   *)
(* its own SmartScopeService (routers/smartscope.py:26); the requests      *)
(* share the database only.                                                *)
(***************************************************************************)
MaxInflight == 2

Idle == [pc |-> "idle"]

\* The set of elements of a sequence
Range(s) == {s[i] : i \in 1..Len(s)}

\* asyncio.gather(*tasks, return_exceptions=True) returns once every task has
\* finished; `finished` lists the tasks (by position) in the order in
\* which they finished.
gather_returns_on_first_failure(image_urls, finished) ==
    \/ Len(finished) = Len(image_urls)
    \/ \E k \in 1..Len(finished) : ~process_single(image_urls[finished[k]]).ok

gather_returns(image_urls, finished) == Len(finished) = Len(image_urls)

\* The results gather returns: one per task, in the order of the tasks (not
\* of their completion), an exception standing in the place of a task that
\* raised.  A task that has not finished has no result.
gather_results_in_completion_order(image_urls, finished) ==
    [k \in 1..Len(finished) |-> process_single(image_urls[finished[k]])]

gather_results(image_urls, finished) ==
    [i \in 1..Len(image_urls) |->
        IF i \in Range(finished) THEN process_single(image_urls[i])
        ELSE [ok |-> FALSE, source_url |-> image_urls[i]]]

\* preprocess, lines 45-51, once gather has returned
preprocess_gathered(image_urls, finished) ==
    KeepProcessed(gather_results(image_urls, finished))

\* analyse from line 114 on, for the images preprocess returned
analyse_images(request, processed_images, reply) ==
    LET payload == build_prompt_payload(request, processed_images)
        data0 == reply.data
        data1 == SetDefault(data0, "confidence",
                            Num(calculate_confidence(data0, processed_images)))
        data2 == SetDefault(data1, "additional_observations", <<>>)
        data3 == SetDefault(data2, "materials", <<>>)
        data4 == SetDefault(data3, "scope_items", <<>>)
    IN  IF processed_images = <<>>
        THEN [raised |-> "ValueError: No valid images were processed for analysis",
              model_calls |-> 0, images |-> processed_images]
        ELSE IF reply.kind = "error"
        THEN [raised |-> "RuntimeError: Failed to analyse photos with OpenAI Vision",
              model_calls |-> 1, images |-> processed_images, payload |-> payload]
        ELSE IF reply.kind = "unexpected_format"
        THEN [raised |-> "ValueError: Unexpected OpenAI response format",
              model_calls |-> 1, images |-> processed_images, payload |-> payload]
        ELSE IF reply.kind = "not_json"
        THEN [raised |-> "JSONDecodeError",
              model_calls |-> 1, images |-> processed_images, payload |-> payload]
        ELSE IF reply.kind = "not_an_object"
        THEN [raised |-> "AttributeError: object has no attribute 'setdefault'",
              model_calls |-> 1, images |-> processed_images, payload |-> payload]
        ELSE [raised |-> "",
              model_calls |-> 1, images |-> processed_images, payload |-> payload,
              analysis |-> data4,
              metadata |-> [model_version |-> smartscope_model,
                            processing_status |-> "completed",
                            processing_time_ms |-> reply.elapsed_ms,
                            tokens_used |-> reply.total_tokens]]

\* process_analysis, lines 119-129: the checks made before the first await
access_checks(payload, current_user) ==
    LET denied == ensure_project_access(payload.project_id, current_user)
    IN  IF denied # "" THEN denied
        ELSE IF /\ payload.organization_id # Nil
                /\ current_user.organization_id # Nil
                /\ payload.organization_id # current_user.organization_id
        THEN "403: Organisation mismatch for SmartScope analysis"
        ELSE ""

\* The requests and requesters of the concurrent runs
ConcurrentRequests ==
    {r \in Requests : r.project_id \in {"p1", "p2"} /\ r.photo_urls # <<>>}

ConcurrentUsers == {u \in Users : u.id \in {"u1", "u3"}}

ConcurrentInit ==
    /\ analyses = <<>>
    /\ feedback = <<>>
    /\ costs = <<>>
    /\ monitor \in Monitors
    /\ now = 0
    /\ last = NoCall
    /\ arg = NoArg
    /\ inflight = [s \in 1..MaxInflight |-> Idle]
    /\ admitted = <<>>

\* POST /smartscope/analyze arrives: the access checks run, and preprocess
\* starts one task per photo URL
StartRequest(s) ==
    /\ inflight[s].pc = "idle"
    /\ \E payload \in ConcurrentRequests, current_user \in ConcurrentUsers :
          LET denied == access_checks(payload, current_user)
          IN  inflight' = [inflight EXCEPT ![s] =
                  IF denied # ""
                  THEN [pc |-> "done", payload |-> payload, user |-> current_user,
                        raised |-> denied, finished |-> <<>>, gathered |-> FALSE,
                        model_calls |-> 0, reply |-> NoReply, insert_outcome |-> "",
                        cost_outcome |-> "", record_id |-> 0, stored_at |-> now,
                        returned |-> <<>>]
                  ELSE [pc |-> "gathering", payload |-> payload, user |-> current_user,
                        finished |-> <<>>]]
    /\ UNCHANGED <<analyses, feedback, costs, monitor, now, last, arg, admitted>>

\* One image task of a request finishes, with a ProcessedImage or an exception
FinishImageTask(s) ==
    /\ inflight[s].pc = "gathering"
    /\ \E i \in 1..Len(inflight[s].payload.photo_urls) :
          /\ i \notin Range(inflight[s].finished)
          /\ inflight' = [inflight EXCEPT ![s].finished = Append(@, i)]
    /\ UNCHANGED <<analyses, feedback, costs, monitor, now, last, arg, admitted>>

\* gather returns: preprocess keeps the processed images, and analyse either
\* raises for want of images or sends the request to the model
Gathered(s) ==
    /\ inflight[s].pc = "gathering"
    /\ gather_returns(inflight[s].payload.photo_urls, inflight[s].finished)
    /\ LET cur == inflight[s]
           processed_images == preprocess_gathered(cur.payload.photo_urls, cur.finished)
       IN  inflight' = [inflight EXCEPT ![s] =
               IF processed_images = <<>>
               THEN [pc |-> "done", payload |-> cur.payload, user |-> cur.user,
                     raised |-> analyse_images(cur.payload, processed_images, NoReply).raised,
                     finished |-> cur.finished, gathered |-> TRUE,
                     images |-> processed_images,
                     model_calls |-> 0, reply |-> NoReply, insert_outcome |-> "",
                     cost_outcome |-> "", record_id |-> 0, stored_at |-> now,
                     returned |-> <<>>]
               ELSE [pc |-> "awaiting_model", payload |-> cur.payload, user |-> cur.user,
                     finished |-> cur.finished, images |-> processed_images,
                     sent |-> build_prompt_payload(cur.payload, processed_images)]]
    /\ UNCHANGED <<analyses, feedback, costs, monitor, now, last, arg, admitted>>

\* The model call of a request ends; the rest of analyse and of
\* process_analysis runs to the end
ModelReplied(s) ==
    /\ inflight[s].pc = "awaiting_model"
    /\ \E reply \in ModelReplies :
          LET cur == inflight[s]
              vision_result == analyse_images(cur.payload, cur.images, reply)
          IN  \E insert_outcome \in Consulted(IF vision_result.raised = "" THEN 1 ELSE 0,
                                              InsertOutcomes, "") :
              \E cost_outcome \in Consulted(
                      IF vision_result.raised = ""
                      THEN store_analysis(cur.payload, cur.user, vision_result,
                                          insert_outcome, "ok", analyses, costs,
                                          monitor, now).cost_inserts
                      ELSE 0, CostOutcomes, "") :
                 LET r == IF vision_result.raised = ""
                          THEN store_analysis(cur.payload, cur.user, vision_result,
                                              insert_outcome, cost_outcome, analyses,
                                              costs, monitor, now)
                          ELSE [raised |-> vision_result.raised, analyses |-> analyses,
                                costs |-> costs]
                 IN  /\ analyses' = r.analyses
                     /\ costs' = r.costs
                     /\ inflight' = [inflight EXCEPT ![s] =
                           [pc |-> "done", payload |-> cur.payload, user |-> cur.user,
                            raised |-> r.raised, finished |-> cur.finished,
                            gathered |-> TRUE, images |-> cur.images, sent |-> cur.sent,
                            model_calls |-> 1, reply |-> reply,
                            insert_outcome |-> insert_outcome,
                            cost_outcome |-> cost_outcome,
                            record_id |-> IF Len(r.analyses) > Len(analyses)
                                          THEN r.analyses[Len(r.analyses)].id ELSE 0,
                            stored_at |-> now,
                            returned |-> IF r.raised = "" THEN r.returned ELSE <<>>]]
    /\ UNCHANGED <<feedback, monitor, now, last, arg, admitted>>

ConcurrentNext ==
    \/ \E s \in 1..MaxInflight : StartRequest(s)
    \/ \E s \in 1..MaxInflight : FinishImageTask(s)
    \/ \E s \in 1..MaxInflight : Gathered(s)
    \/ \E s \in 1..MaxInflight : ModelReplied(s)

SpecConcurrent == ConcurrentInit /\ [][ConcurrentNext]_vars

(***************************************************************************)
(* Response extraction: json.loads on the reply text, and _parse_response. *)
(* The JSON read is the subset: objects, arrays, strings without escapes,  *)
(* unsigned integers without leading zeros, and null; blanks between       *)
(* tokens.  A parsed object is a dict, an array a list.                    *)
(***************************************************************************)
JsonStr(chars) == [t |-> "str", v |-> chars]

JsonList(items) == [t |-> "list", v |-> items]

JsonDict(members) == [t |-> "dict", v |-> members]

JsonFail == [ok |-> FALSE]

JsonOk(value, rest) == [ok |-> TRUE, value |-> value, rest |-> rest]

\* str.find(c) and str.rfind(c), 1-based; 0 stands for Python's -1
Find(s, c) ==
    IF \E i \in 1..Len(s) : s[i] = c
    THEN CHOOSE i \in 1..Len(s) : s[i] = c /\ \A j \in 1..(i - 1) : s[j] # c
    ELSE 0

RFind(s, c) ==
    IF \E i \in 1..Len(s) : s[i] = c
    THEN CHOOSE i \in 1..Len(s) : s[i] = c /\ \A j \in (i + 1)..Len(s) : s[j] # c
    ELSE 0

StartsWith(s, prefix) == Len(s) >= Len(prefix) /\ SubSeq(s, 1, Len(prefix)) = prefix

\* The longest run of decimal digits at the head of s
RECURSIVE DigitRun(_)
DigitRun(s) ==
    IF s # <<>> /\ IsDigit(Head(s)) THEN <<Head(s)>> \o DigitRun(Tail(s)) ELSE <<>>

\* A string token: from the opening quote to the next quote
parse_string(s) ==
    LET close == Find(Tail(s), "\"")
    IN  IF s = <<>> \/ Head(s) # "\"" \/ close = 0 THEN JsonFail
        ELSE JsonOk(JsonStr(SubSeq(Tail(s), 1, close - 1)),
                    SubSeq(Tail(s), close + 1, Len(s) - 1))

\* A number token: 0, or a digit run that does not start with 0
parse_number(s) ==
    LET run == IF s # <<>> /\ Head(s) = "0" THEN <<"0">> ELSE DigitRun(s)
    IN  IF run = <<>> THEN JsonFail
        ELSE JsonOk(Num(DigitsValue(run)), SubSeq(s, Len(run) + 1, Len(s)))

RECURSIVE parse_value(_)
RECURSIVE parse_elements(_, _)
RECURSIVE parse_members(_, _)

\* The elements of an array after "[" or ",": value, then "," or "]"
parse_elements(s, items) ==
    LET element == parse_value(s)
        after == LStrip(element.rest)
    IN  IF ~element.ok \/ after = <<>> THEN JsonFail
        ELSE IF Head(after) = "]"
        THEN JsonOk(JsonList(Append(items, element.value)), Tail(after))
        ELSE IF Head(after) = ","
        THEN parse_elements(Tail(after), Append(items, element.value))
        ELSE JsonFail

\* The members of an object after "{" or ",": key, ":", value, then "," or
\* "}"; a repeated key keeps its last value
parse_members(s, members) ==
    LET key == parse_string(LStrip(s))
        colon == LStrip(key.rest)
        member == parse_value(Tail(colon))
        after == LStrip(member.rest)
        extended == (key.value.v :> member.value) @@ members
    IN  IF ~key.ok \/ colon = <<>> \/ Head(colon) # ":" THEN JsonFail
        ELSE IF ~member.ok \/ after = <<>> THEN JsonFail
        ELSE IF Head(after) = "}" THEN JsonOk(JsonDict(extended), Tail(after))
        ELSE IF Head(after) = "," THEN parse_members(Tail(after), extended)
        ELSE JsonFail

parse_value(s0) ==
    LET s == LStrip(s0)
        inner == LStrip(Tail(s))
    IN  IF s = <<>> THEN JsonFail
        ELSE IF Head(s) = "{"
        THEN IF inner # <<>> /\ Head(inner) = "}" THEN JsonOk(JsonDict(<<>>), Tail(inner))
             ELSE parse_members(inner, <<>>)
        ELSE IF Head(s) = "["
        THEN IF inner # <<>> /\ Head(inner) = "]" THEN JsonOk(JsonList(<<>>), Tail(inner))
             ELSE parse_elements(inner, <<>>)
        ELSE IF Head(s) = "\"" THEN parse_string(s)
        ELSE IF StartsWith(s, <<"n", "u", "l", "l">>)
        THEN JsonOk(NoneVal, SubSeq(s, 5, Len(s)))
        ELSE parse_number(s)

\* json.loads(text): the value, when the whole text is one JSON value
json_loads(text) ==
    LET parsed == parse_value(text)
    IN  IF parsed.ok /\ LStrip(parsed.rest) = <<>>
        THEN [ok |-> TRUE, value |-> parsed.value]
        ELSE [ok |-> FALSE]

\* _parse_response: the value returned, or the JSONDecodeError raised
parse_response(text) ==
    LET content == Strip(text)
        direct == json_loads(content)
        start == Find(content, "{")
        end == RFind(content, "}")
        salvaged == json_loads(SubSeq(content, start, end))
    IN  IF direct.ok THEN [raised |-> "", value |-> direct.value]
        ELSE IF start # 0 /\ end # 0 /\ salvaged.ok
        THEN [raised |-> "", value |-> salvaged.value]
        ELSE [raised |-> "JSONDecodeError"]

\* analyse, lines 126-131: the parsed data with its defaults, or the
\* exception raised; setdefault exists on a dict only.  The confidence
\* default of line 128 needs the images and is left to analyse.
parse_and_default(text) ==
    LET parsed == parse_response(text)
    IN  IF parsed.raised # "" THEN [raised |-> parsed.raised]
        ELSE IF parsed.value.t # "dict"
        THEN [raised |-> "AttributeError: object has no attribute 'setdefault'"]
        ELSE [raised |-> "",
              data |-> SetDefault(SetDefault(SetDefault(parsed.value.v,
                          <<"a", "d", "d", "i", "t", "i", "o", "n", "a", "l", "_",
                            "o", "b", "s", "e", "r", "v", "a", "t", "i", "o", "n", "s">>,
                          JsonList(<<>>)),
                          <<"m", "a", "t", "e", "r", "i", "a", "l", "s">>, JsonList(<<>>)),
                          <<"s", "c", "o", "p", "e", "_", "i", "t", "e", "m", "s">>,
                          JsonList(<<>>))]

MaxTextLen == 4

\* The characters of the short reply texts
ReplyAlphabet == {"{", "}", "[", "]", "1", " ", "x"}

\* Longer reply texts: an object, an object inside a heading or prose, two
\* objects, arrays, a string, a number, null, truncated and empty objects
LongReplyTexts ==
    { <<"{", "\"", "a", "\"", ":", "1", "}">>,
      <<" ", "{", "\"", "a", "\"", ":", " ", "1", "2", ",", "\"", "b", "\"", ":",
        "[", "1", ",", "2", "]", "}", " ">>,
      <<"#", " ", "j", "s", "o", "n", " ", "{", "\"", "a", "\"", ":", "{", "}", "}",
        " ", "#">>,
      <<"S", "u", "r", "e", ":", " ", "{", "\"", "a", "\"", ":", "1", "}", ".">>,
      <<"{", "\"", "a", "\"", ":", "1", "}", " ", "{", "\"", "b", "\"", ":", "2", "}">>,
      <<"[", "{", "\"", "a", "\"", ":", "1", "}", "]">>,
      <<"[", "1", ",", "2", "]">>,
      <<"\"", "o", "k", "\"">>,
      <<"\"", "{", "}", "\"">>,
      <<"n", "u", "l", "l">>,
      <<"4", "2">>,
      <<"0", "1">>,
      <<"{", "\"", "a", "\"", ":", "1", ",", "}">>,
      <<"{", "\"", "a", "\"", ":">>,
      <<"x", "{", "\"", "a", "\"", "}", "y">>,
      <<"{", "\"", "a", "\"", ":", "1", ",", "\"", "a", "\"", ":", "2", "}">> }

ShortReplyTexts == UNION {[1..n -> ReplyAlphabet] : n \in 0..MaxTextLen}

ReplyTexts == ShortReplyTexts \cup LongReplyTexts

ParseInit ==
    /\ analyses = <<>>
    /\ feedback = <<>>
    /\ costs = <<>>
    /\ monitor = [supabase |-> FALSE, daily_budget |-> 250000, monthly_budget |-> 5000000]
    /\ now = 0
    /\ last = NoCall
    /\ arg \in [kind : {"text"}, content : ReplyTexts]
    /\ inflight = <<>>
    /\ admitted = <<>>

\* analyse, lines 125-131, on the text of the model reply
ParseResponse ==
    /\ last = NoCall
    /\ LET r == parse_and_default(arg.content)
       IN  last' = [op |-> "parse_response",
                    parsed |-> parse_response(arg.content),
                    raised |-> r.raised,
                    data |-> IF r.raised = "" THEN <<r.data>> ELSE <<>>,
                    analyses_before |-> analyses]
    /\ UNCHANGED <<analyses, feedback, costs, monitor, now, arg, inflight, admitted>>

ParseNext == ParseResponse

SpecParse == ParseInit /\ [][ParseNext]_vars

(***************************************************************************)
(* Image quality on its own: decoded images of any size are downscaled and *)
(* scored, and the heuristic confidence is computed from the scores.       *)
(***************************************************************************)
smartscope_confidence_threshold == 75

\* _process_single, lines 59-83, scoring the image as decoded, before the resize
process_decoded_scored_before_resize(url, width, height) ==
    LET size == Thumbnail(width, height)
    IN  [ok |-> TRUE, source_url |-> url,
         width |-> size.width, height |-> size.height,
         quality_score |-> estimate_quality(width, height)]

\* _process_single, lines 59-83: the ProcessedImage of a decoded image of the
\* given size
process_decoded(url, width, height) ==
    LET size == Thumbnail(width, height)
    IN  [ok |-> TRUE, source_url |-> url,
         width |-> size.width, height |-> size.height,
         quality_score |-> estimate_quality(size.width, size.height)]

\* Edge lengths in pixels: tiny, around the ratio 2.2, around max_dimension,
\* and far above it
QualityEdges ==
    {1, 5, 11, 499, 500, 501, 1000, 1100, 1101, 1599, 1600, 1601, 2200, 3520, 4000, 12000}

QualitySizes == [width : QualityEdges, height : QualityEdges]

\* The photo sets: one image of any size, or two images of the extreme sizes
QualityPhotoSets ==
    {<<size>> : size \in QualitySizes}
    \cup {<<a, b>> : a, b \in [width : {1, 1600, 12000}, height : {1, 1600, 12000}]}

QualityInit ==
    /\ analyses = <<>>
    /\ feedback = <<>>
    /\ costs = <<>>
    /\ monitor = [supabase |-> FALSE, daily_budget |-> 250000, monthly_budget |-> 5000000]
    /\ now = 0
    /\ last = NoCall
    /\ arg \in [kind : {"photos"}, sizes : QualityPhotoSets, scope_items : {0, 3}]
    /\ inflight = <<>>
    /\ admitted = <<>>

\* _estimate_quality applied to an image of the first size as it is
EstimateQuality ==
    /\ last = NoCall
    /\ last' = [op |-> "estimate_quality",
                width |-> arg.sizes[1].width,
                height |-> arg.sizes[1].height,
                quality_score |-> estimate_quality(arg.sizes[1].width, arg.sizes[1].height)]
    /\ UNCHANGED <<analyses, feedback, costs, monitor, now, arg, inflight, admitted>>

\* The photos are ingested and the confidence is computed for a reply that
\* carries scope items and no confidence
IngestAndScore ==
    /\ last = NoCall
    /\ LET images == [i \in 1..Len(arg.sizes) |->
                         process_decoded("https://cdn/photo.jpg",
                                         arg.sizes[i].width, arg.sizes[i].height)]
           data == "scope_items" :> ScopeItemsOf(arg.scope_items)
       IN  last' = [op |-> "calculate_confidence",
                    images |-> images,
                    data |-> data,
                    confidence |-> calculate_confidence(data, images)]
    /\ UNCHANGED <<analyses, feedback, costs, monitor, now, arg, inflight, admitted>>

QualityNext ==
    \/ EstimateQuality
    \/ IngestAndScore
    \/ Respond

SpecQuality == QualityInit /\ [][QualityNext]_vars

(***************************************************************************)
(* api/middleware/rate_limit.py.  A request is its path (a sequence of     *)
(* characters), the entries of its X-Forwarded-For header (none when the   *)
(* header is absent or empty) and the address of its peer.  Time is in     *)
(* whole seconds.                                                          *)
(***************************************************************************)
P_health == <<"/", "h", "e", "a", "l", "t", "h">>

P_root == <<"/">>

P_docs == <<"/", "d", "o", "c", "s">>

P_openapi == <<"/", "o", "p", "e", "n", "a", "p", "i", ".", "j", "s", "o", "n">>

P_auth_prefix == <<"/", "a", "p", "i", "/", "a", "u", "t", "h">>

P_auth_login ==
    <<"/", "a", "p", "i", "/", "a", "u", "t", "h", "/", "l", "o", "g", "i",
      "n">>

P_auth_reset ==
    <<"/", "a", "p", "i", "/", "a", "u", "t", "h", "/", "r", "e", "s", "e",
      "t", "-", "p", "a", "s", "s", "w", "o", "r", "d">>

P_smartscope ==
    <<"/", "a", "p", "i", "/", "s", "m", "a", "r", "t", "s", "c", "o", "p",
      "e", "/", "a", "n", "a", "l", "y", "z", "e">>

\* settings.rate_limit_requests and settings.rate_limit_period (config.py
\* defaults: 100 requests per 3600 seconds), set to small values
rate_limit_requests == 2

rate_limit_period == 3

\* RateLimiter(requests, period): no client has a timestamp yet
RateLimiter(requests, period) == [requests |-> requests, period |-> period, clients |-> <<>>]

\* _get_client_id
get_client_id(request) ==
    IF request.forwarded # <<>> THEN Head(request.forwarded)
    ELSE IF request.peer # Nil THEN request.peer
    ELSE "unknown"

\* _cleanup_old_requests at time t: the timestamps after the cutoff, and only
\* the clients that keep one
cleanup_old_requests(limiter, t) ==
    LET kept(c) == SelectSeq(limiter.clients[c], LAMBDA ts : ts > t - limiter.period)
    IN  [c \in {d \in DOMAIN limiter.clients : kept(d) # <<>>} |-> kept(c)]

\* check_rate_limit at time t: (allowed, wait_time) and the clients map after
\* the call
check_rate_limit(limiter, request, t) ==
    LET client_id == get_client_id(request)
        cleaned == cleanup_old_requests(limiter, t)
        held == IF client_id \in DOMAIN cleaned THEN cleaned[client_id] ELSE <<>>
        timestamps == SelectSeq(held, LAMBDA ts : ts > t - limiter.period)
        oldest == CHOOSE ts \in Range(timestamps) : \A other \in Range(timestamps) : ts <= other
    IN  IF Len(timestamps) >= limiter.requests
        THEN [allowed |-> FALSE, wait_time |-> oldest + limiter.period - t,
              clients |-> (client_id :> held) @@ cleaned]
        ELSE [allowed |-> TRUE, wait_time |-> 0,
              clients |-> (client_id :> Append(timestamps, t)) @@ cleaned]

\* rate_limit_middleware at time t: the request is passed on to call_next, or
\* answered with 429 and a Retry-After header.  The limiter consulted is the
\* one the middleware constructs for this request (line 81).
rate_limit_middleware(request, t) ==
    LET limiter == RateLimiter(rate_limit_requests, rate_limit_period)
        checked == check_rate_limit(limiter, request, t)
    IN  IF request.path \in {P_health, P_root, P_docs, P_openapi}
        THEN [status |-> "call_next", retry_after |-> NoneVal]
        ELSE IF StartsWith(request.path, P_auth_prefix) /\ ~checked.allowed
        THEN [status |-> "429", retry_after |-> Num(checked.wait_time)]
        ELSE [status |-> "call_next", retry_after |-> NoneVal]

MaxSeconds == 4

MaxAdmitted == 3

\* Requests: two auth paths, a health check and another API path; from a
\* peer directly, through a proxy naming the client first, or with no peer
HttpRequests ==
    [path : {P_auth_login, P_auth_reset, P_health, P_smartscope},
     forwarded : {<<>>, <<"10.0.0.1", "172.16.0.9">>},
     peer : {"10.0.0.1", "10.0.0.2"}]
    \cup [path : {P_auth_login}, forwarded : {<<>>}, peer : {Nil}]

RateInit ==
    /\ analyses = <<>>
    /\ feedback = <<>>
    /\ costs = <<>>
    /\ monitor = [supabase |-> FALSE, daily_budget |-> 250000, monthly_budget |-> 5000000]
    /\ now = 0
    /\ last = NoCall
    /\ arg = NoArg
    /\ inflight = <<>>
    /\ admitted = <<>>

\* A request passes through the middleware; `admitted` lists the requests
\* handed to call_next with their client and time
HandleRequest ==
    /\ last = NoCall
    /\ Len(admitted) < MaxAdmitted
    /\ \E request \in HttpRequests :
          LET response == rate_limit_middleware(request, now)
          IN  /\ admitted' = IF response.status = "call_next"
                             THEN Append(admitted, [client |-> get_client_id(request),
                                                    path |-> request.path, at |-> now])
                             ELSE admitted
              /\ last' = [op |-> "rate_limit_middleware",
                          request |-> request,
                          client |-> get_client_id(request),
                          status |-> response.status,
                          retry_after |-> response.retry_after,
                          admitted_before |-> admitted]
    /\ UNCHANGED <<analyses, feedback, costs, monitor, now, arg, inflight>>

\* A second passes
SecondPasses ==
    /\ last = NoCall
    /\ now < MaxSeconds
    /\ now' = now + 1
    /\ UNCHANGED <<analyses, feedback, costs, monitor, last, arg, inflight, admitted>>

RateNext ==
    \/ HandleRequest
    \/ Respond
    \/ SecondPasses

SpecRateLimit == RateInit /\ [][RateNext]_vars

(***************************************************************************)
(* Properties                                                              *)
(***************************************************************************)
IsProcess == last.op = "process_analysis"

\* The exceptions with which the access checks of process_analysis end a call
AccessDenials ==
    { "404: Project not found",
      "500: Project is missing associated property information",
      "404: Property not found for project",
      "403: You do not have access to this project",
      "403: Managers can only access their assigned projects",
      "403: Organisation mismatch for SmartScope analysis" }

IsPrefix(a, b) == Len(a) <= Len(b) /\ \A i \in 1..Len(a) : b[i] = a[i]

AnalysisIds(rows) == {rows[i].id : i \in 1..Len(rows)}

NoImageSurvives(urls) == \A i \in 1..Len(urls) : Remote[urls[i]].status # "image"

HasNumericConfidence(data) == "confidence" \in DOMAIN data /\ data["confidence"].t = "num"

\* C1: a process_analysis call that ends in an error leaves the analyses
\* collection exactly as it was before the call.
C1_FailedRunWritesNothing ==
    (IsProcess /\ last.raised # "") => analyses = last.analyses_before

\* C2: every stored analysis has confidence_score within [0,1]; a numeric
\* confidence of the model reply is stored clamped to the nearest bound, and
\* unchanged when it already lies in [0,1].
C2_ConfidenceClamped ==
    /\ \A i \in 1..Len(analyses) :
          analyses[i].confidence_score >= 0 /\ analyses[i].confidence_score <= 100
    /\ (IsProcess /\ Len(analyses) > Len(last.analyses_before)
            /\ HasNumericConfidence(last.reply.data))
        => analyses[Len(analyses)].confidence_score
              = Max(0, Min(100, last.reply.data["confidence"].v))

\* C3: every stored analysis has a severity that is one of Emergency, High,
\* Medium, Low in title case (so "high" is stored as "High" and "urgent" is
\* never stored).
C3_SeverityEnumerated ==
    \A i \in 1..Len(analyses) : analyses[i].severity \in SMARTSCOPE_SEVERITIES

\* C4: a process_analysis call whose photo_urls is empty or whose images all
\* fail to fetch or decode invokes the model zero times and writes no analysis
\* and no cost record; it ends in an error, which is the validation failure
\* "No valid images" whenever the call got past the access checks to ingestion.
C4_NoImagesNoModelCall ==
    (IsProcess /\ NoImageSurvives(last.payload.photo_urls)) =>
        /\ last.model_calls = 0
        /\ analyses = last.analyses_before
        /\ costs = last.costs_before
        /\ last.raised # ""
        /\ last.raised \notin AccessDenials
              => last.raised = "ValueError: No valid images were processed for analysis"

\* C4 witness: ingestion ran on a request whose two images both failed.
C4_Witness ==
    /\ IsProcess
    /\ last.fetches = 2
    /\ NoImageSurvives(last.payload.photo_urls)
    /\ last.raised = "ValueError: No valid images were processed for analysis"

\* C5: the analyses collection is append-only under every operation: the
\* records present before a call are present, unchanged and in place after
\* it, the read operations and submit_feedback add nothing, and a successful
\* process_analysis adds exactly one record whose id no earlier record has.
C5_AppendOnly ==
    last.op # "none" =>
        /\ IsPrefix(last.analyses_before, analyses)
        /\ Len(analyses) <= Len(last.analyses_before) + 1
        /\ last.op # "process_analysis" => analyses = last.analyses_before
        /\ (IsProcess /\ last.raised = "") =>
              /\ Len(analyses) = Len(last.analyses_before) + 1
              /\ analyses[Len(analyses)].id \notin AnalysisIds(last.analyses_before)
        /\ \A i, j \in 1..Len(analyses) : i # j => analyses[i].id # analyses[j].id

\* C5 witness: a second successful run of a request identical to an earlier
\* one has added a second record with the same content and another id.
C5_Witness ==
    /\ IsProcess
    /\ last.raised = ""
    /\ Len(analyses) = 2
    /\ analyses[1].id # analyses[2].id
    /\ [analyses[1] EXCEPT !.id = 0] = [analyses[2] EXCEPT !.id = 0]

\* C6: budget state never gates the pipeline: whatever the cost collection and
\* the budgets, a process_analysis call raises, persists and returns what the
\* same call does with an empty cost collection.
C6_BudgetNeverGates ==
    IsProcess =>
        LET reply == IF last.reply = NoReply THEN AnyReply ELSE last.reply
            insert_outcome == IF last.insert_outcome = "" THEN "ok" ELSE last.insert_outcome
            cost_outcome == IF last.cost_outcome = "" THEN "ok" ELSE last.cost_outcome
            r == process_analysis(last.payload, last.user, reply, insert_outcome,
                                  cost_outcome, last.analyses_before, <<>>, monitor, now)
        IN  /\ last.raised = r.raised
            /\ last.model_calls = r.model_calls
            /\ last.inserts = r.inserts
            /\ analyses = r.analyses
            /\ last.raised = "" => last.returned = r.returned

\* C6 witness: an analysis was processed, stored and returned while the spend
\* of the last 24 hours was above 100% of the daily budget.
C6_Witness ==
    /\ IsProcess
    /\ last.raised = ""
    /\ monitor.supabase
    /\ check_budget_status(monitor, last.costs_before, now).status = "red"
    /\ check_budget_status(monitor, last.costs_before, now).daily_usage_percent >= 10000

\* The sum of api_cost over the cost records at most `hours` old
WindowSpend(hours) ==
    SumSeq([k \in 1..Len(costs) |->
               IF now - costs[k].created_at <= hours THEN costs[k].api_cost ELSE 0])

\* "red", "amber" or "green" for the two spends: usage_percent = 100 * spend /
\* budget (0 when the budget is 0), red above 90, amber above 70
StatusFor(daily, monthly) ==
    LET above(spend, budget, pct) == budget # 0 /\ 100 * spend > pct * budget
    IN  IF above(daily, monitor.daily_budget, 90) \/ above(monthly, monitor.monthly_budget, 90)
        THEN "red"
        ELSE IF \/ above(daily, monitor.daily_budget, 70)
                \/ above(monthly, monitor.monthly_budget, 70)
        THEN "amber"
        ELSE "green"

\* C7: check_budget_status of a monitor with a persistence client sums
\* api_cost over the records of the trailing 24 hours and of the trailing 30
\* days, reports usage_percent = 100 * spend / budget per window (0 for a
\* budget of 0) and returns "red" when either usage is strictly above 90,
\* else "amber" when either is strictly above 70, else "green".
C7_BudgetStatus ==
    (last.op = "check_budget_status" /\ monitor.supabase) =>
        LET daily == WindowSpend(24)
            monthly == WindowSpend(30 * 24)
        IN  /\ last.result.daily_spend = daily
            /\ last.result.monthly_spend = monthly
            /\ last.result.daily_usage_percent =
                  (IF monitor.daily_budget = 0 THEN 0
                   ELSE RoundDiv(10000 * daily, monitor.daily_budget))
            /\ last.result.monthly_usage_percent =
                  (IF monitor.monthly_budget = 0 THEN 0
                   ELSE RoundDiv(10000 * monthly, monitor.monthly_budget))
            /\ last.result.status = StatusFor(daily, monthly)

\* C7 witness: the only spend is older than 24 hours and younger than 30 days;
\* it counts for the monthly window alone, where it is exactly 90% of the
\* budget, and the status is amber.
C7_Witness ==
    /\ last.op = "check_budget_status"
    /\ monitor.supabase
    /\ monitor.daily_budget # 0
    /\ \A k \in 1..Len(costs) : now - costs[k].created_at > 24
                                   /\ now - costs[k].created_at < 30 * 24
    /\ last.result.daily_spend = 0
    /\ 100 * last.result.monthly_spend = 90 * monitor.monthly_budget
    /\ last.result.monthly_spend > 0
    /\ last.result.status = "amber"

\* C8: a request whose category is a key of the category guidance table gets,
\* after the normalisation on ingress, a prompt with that category's own
\* guidance block and workflow template.
C8_OwnGuidanceForTableCategories ==
    (last.op = "build_prompt_payload" /\ arg.category \in CategoryKeys) =>
        /\ last.payload.prompt.guidance = CATEGORY_GUIDANCE[arg.category]
        /\ last.payload.prompt.templates = CATEGORY_SCOPE_TEMPLATES[arg.category]

\* The heuristic confidence (hundredths) for processed images and a reply:
\* min(1.0, 0.6 + 0.3 * average quality + (0.05 if >= 3 scope items)), 2 decimals
HeuristicConfidence(urls, data) ==
    LET images == preprocess(urls)
        n == Len(images)
        quality == SumSeq([i \in 1..n |-> images[i].quality_score])
        items == IF "scope_items" \in DOMAIN data THEN Len(data["scope_items"]) ELSE 0
        bonus == IF items >= 3 THEN 5 ELSE 0
    IN  RoundDiv(Min(100 * 10 * n, (60 + bonus) * 10 * n + 3 * quality), 10 * n)

\* C9: when the model reply carries no numeric confidence (absent or null),
\* the run does not fail for that reason and the analysis it stores and
\* returns carries the heuristic confidence.
C9_HeuristicWhenConfidenceMissing ==
    (IsProcess /\ last.reply.kind = "json" /\ ~HasNumericConfidence(last.reply.data)) =>
        /\ last.raised # "TypeError: float() argument must be a string or a real number"
        /\ Len(analyses) > Len(last.analyses_before) =>
              analyses[Len(analyses)].confidence_score
                 = HeuristicConfidence(last.payload.photo_urls, last.reply.data)
        /\ last.raised = "" =>
              last.returned[1].confidence_score
                 = HeuristicConfidence(last.payload.photo_urls, last.reply.data)

\* C10: every feedback record references an analysis that exists;
\* submit_feedback for an unknown analysis id ends in 404 and submit_feedback
\* by a requester denied access to the owning project ends in 403, and
\* neither writes a feedback record.
C10_FeedbackReferencesAnalysis ==
    /\ \A k \in 1..Len(feedback) : feedback[k].analysis_id \in AnalysisIds(analyses)
    /\ (last.op = "submit_feedback" /\ last.analysis_id \notin AnalysisIds(analyses)) =>
          /\ last.raised = "404: SmartScope analysis not found"
          /\ feedback = last.feedback_before
    /\ (last.op = "submit_feedback" /\ last.analysis_id \in AnalysisIds(analyses)) =>
          LET owner == (CHOOSE i \in 1..Len(analyses) :
                           analyses[i].id = last.analysis_id)
              denied == ensure_project_access(analyses[owner].project_id, last.user)
          IN  denied # "" =>
                 /\ last.raised = denied
                 /\ denied \in {"403: You do not have access to this project",
                                "403: Managers can only access their assigned projects"}
                 /\ feedback = last.feedback_before

\* C10 witness: feedback on an existing analysis was refused with 403 to a
\* manager who is not the manager of the property, and none was stored.
C10_Witness ==
    /\ last.op = "submit_feedback"
    /\ last.analysis_id \in AnalysisIds(analyses)
    /\ last.raised = "403: Managers can only access their assigned projects"
    /\ feedback = <<>>

\* C11: submit_feedback leaves the analyses collection as it was in every
\* outcome of the call (denied, insert raised, insert returned no data,
\* stored); a call that returns adds exactly one feedback record, which
\* references the analysis, and a call that raises adds none.
C11_FeedbackLeavesAnalyses ==
    last.op = "submit_feedback" =>
        /\ analyses = last.analyses_before
        /\ last.raised = "" =>
              /\ Len(feedback) = Len(last.feedback_before) + 1
              /\ IsPrefix(last.feedback_before, feedback)
              /\ feedback[Len(feedback)].analysis_id = last.analysis_id
        /\ last.raised # "" => feedback = last.feedback_before

\* C11 witness: the feedback insert raised for an authorised requester while
\* the analysis it refers to is stored.
C11_Witness ==
    /\ last.op = "submit_feedback"
    /\ last.insert_outcome = "raise"
    /\ last.raised = "502: Unable to submit feedback"
    /\ last.analysis_id \in AnalysisIds(analyses)

\* The token usage the model reported in the last process_analysis call
\* (None when the model was not reached or returned no usable reply)
ReportedTokens ==
    IF last.model_calls > 0 /\ last.reply.kind = "json"
    THEN last.reply.total_tokens ELSE NoneVal

\* C12: with a cost store configured and its insert working, a
\* process_analysis call that completes with nonzero reported token usage
\* adds exactly one cost record, for the analysis it returned; a call that
\* fails, or whose token usage is zero or absent, adds none.
C12_CostOnlyForNonzeroTokens ==
    (IsProcess /\ monitor.supabase /\ last.cost_outcome # "raise") =>
        /\ IsPrefix(last.costs_before, costs)
        /\ (last.raised = "" /\ ReportedTokens # NoneVal /\ ReportedTokens.v # 0) =>
              /\ Len(costs) = Len(last.costs_before) + 1
              /\ costs[Len(costs)].analysis_id = last.returned[1].id
        /\ (last.raised # "" \/ ReportedTokens = NoneVal \/ ReportedTokens.v = 0) =>
              costs = last.costs_before

\* C13: every cost record carries the id of a stored analysis; a
\* process_analysis call writes a cost record only when its analysis insert
\* succeeded, and under the id of the row that insert stored.
C13_CostReferencesAnalysis ==
    /\ \A k \in 1..Len(costs) : costs[k].analysis_id \in AnalysisIds(analyses)
    /\ (IsProcess /\ Len(costs) > Len(last.costs_before)) =>
          /\ last.insert_outcome = "ok"
          /\ Len(analyses) = Len(last.analyses_before) + 1
          /\ Len(costs) = Len(last.costs_before) + 1
          /\ costs[Len(costs)].analysis_id = analyses[Len(analyses)].id

\* C13 witness: a second analysis completed and its cost was recorded.
C13_Witness ==
    /\ IsProcess
    /\ last.raised = ""
    /\ Len(analyses) = 2
    /\ Len(costs) = Len(last.costs_before) + 1
    /\ costs[Len(costs)].analysis_id = 2

ConfidenceSum(idx) ==
    SumSeq([k \in 1..Len(analyses) |->
               IF k \in idx THEN analyses[k].confidence_score ELSE 0])

\* C15: get_accuracy_metrics returns the number of analyses, the mean
\* confidence_score over all analyses (0 when there are none) and over the
\* analyses of each category present, the mean accuracy_rating over all
\* feedback (None when there is none) and the latest feedback created_at.
C15_MetricsAreMeans ==
    last.op = "get_accuracy_metrics" =>
        LET m == last.metrics
            all == 1..Len(analyses)
            categories == {analyses[k].category : k \in all}
            of(c) == {k \in all : analyses[k].category = c}
            ratings == SumSeq([k \in 1..Len(feedback) |-> feedback[k].accuracy_rating])
        IN  /\ m.total_analyses = Len(analyses)
            /\ m.average_confidence * Len(analyses) = ConfidenceSum(all)
            /\ DOMAIN m.category_accuracy = categories
            /\ \A c \in categories :
                  m.category_accuracy[c] * Cardinality(of(c)) = ConfidenceSum(of(c))
            /\ IF feedback = <<>>
               THEN m.average_accuracy_rating = NoneVal /\ m.last_feedback_at = NoneVal
               ELSE /\ m.average_accuracy_rating.t = "num"
                    /\ m.average_accuracy_rating.v * Len(feedback) = 100 * ratings
                    /\ m.last_feedback_at.t = "num"
                    /\ \E k \in 1..Len(feedback) :
                          m.last_feedback_at.v = feedback[k].created_at
                    /\ \A k \in 1..Len(feedback) :
                          m.last_feedback_at.v >= feedback[k].created_at

\* built carries, item by item, every field of the model class that the raw
\* item carries, with the same value
SameItems(built, raw, fields) ==
    /\ Len(built) = Len(raw)
    /\ \A i \in 1..Len(raw) :
          /\ DOMAIN built[i] = fields
          /\ \A f \in (DOMAIN raw[i]) \cap fields : built[i][f] = raw[i][f]

SelectedWindow(timeframe) ==
    LET lowered == Lower(timeframe)
        number == SubSeq(lowered, 1, Len(lowered) - 1)
        numeral == number # <<>> /\ \A i \in 1..Len(number) : IsDigit(number[i])
    IN  IF EndsWith(lowered, "d") /\ numeral THEN DigitsValue(number) * 24
        ELSE IF EndsWith(lowered, "w") /\ numeral THEN DigitsValue(number) * 7 * 24
        ELSE 30 * 24

\* C17: with a cost store configured, generate_cost_report raises on no
\* timeframe string and reports the total cost, the number of cost records
\* and the average cost (0 when there are none) of the window the string
\* selects.
C17_CostReportNeverRaises ==
    (last.op = "generate_cost_report" /\ monitor.supabase) =>
        LET window == SelectedWindow(last.timeframe)
            inside == {k \in 1..Len(costs) : now - costs[k].created_at <= window}
            n == Cardinality(inside)
        IN  /\ last.result.raised = ""
            /\ last.result.total_cost = WindowSpend(window)
            /\ last.result.analyses = n
            /\ last.result.average_cost
                  = (IF n = 0 THEN 0 ELSE RoundDiv(WindowSpend(window), n))

Forbidden(project_id, current_user) ==
    ensure_project_access(project_id, current_user)
        \in {"403: You do not have access to this project",
             "403: Managers can only access their assigned projects"}

\* C19: get_analysis and list_analyses, called on the service or through
\* their endpoints, end in 403 and return no analysis when the requester's
\* organisation differs from that of the owning project's property or the
\* requester is a manager other than the one assigned to it.
C19_DeniedRequesterGetsForbidden ==
    /\ (/\ last.op \in {"get_analysis", "GET /smartscope/{analysis_id}"}
        /\ last.analysis_id \in AnalysisIds(analyses)) =>
          LET owner == CHOOSE i \in 1..Len(analyses) : analyses[i].id = last.analysis_id
          IN  Forbidden(analyses[owner].project_id, last.user) =>
                 /\ last.raised = ensure_project_access(analyses[owner].project_id, last.user)
                 /\ last.returned = <<>>
    /\ last.op \in {"list_analyses", "GET /smartscope/project/{project_id}"} =>
          (Forbidden(last.project_id, last.user) =>
              /\ last.raised = ensure_project_access(last.project_id, last.user)
              /\ last.returned = <<>>)

\* C20: a process_analysis call invokes the model at most once and attempts
\* the analysis insert at most once; a model error ends the call with the
\* wrapped upstream error and an insert error with the persistence error
\* (502), each after a single attempt and with no analysis stored.
C20_NoRetry ==
    IsProcess =>
        /\ last.model_calls <= 1
        /\ last.inserts <= 1
        /\ (last.model_calls > 0 /\ last.reply.kind = "error") =>
              /\ last.raised = "RuntimeError: Failed to analyse photos with OpenAI Vision"
              /\ last.model_calls = 1
              /\ last.inserts = 0
              /\ analyses = last.analyses_before
        /\ (last.inserts > 0 /\ last.insert_outcome = "raise") =>
              /\ last.raised = "502: Failed to store SmartScope analysis"
              /\ last.model_calls = 1
              /\ last.inserts = 1
              /\ analyses = last.analyses_before

\* C20 witness: the model call failed once, and in another call the insert
\* failed once, with an analysis already stored
C20_Witness ==
    /\ IsProcess
    /\ Len(analyses) = 1
    /\ \/ last.reply.kind = "error" /\ last.model_calls = 1
       \/ last.insert_outcome = "raise" /\ last.inserts = 1

\* C21: every record of the analyses collection has processing_status
\* "completed", and a process_analysis call that ends in an error is not
\* represented by any stored record.
C21_OnlyCompletedRunsStored ==
    /\ \A i \in 1..Len(analyses) : analyses[i].processing_status = "completed"
    /\ (IsProcess /\ last.raised # "") => Len(analyses) = Len(last.analyses_before)

\* The requests in flight that have ended
Finished == {s \in DOMAIN inflight : inflight[s].pc = "done"}

\* What a finished request does when it runs alone on an empty database,
\* with the same collaborator outcomes
RunAlone(req) ==
    process_analysis(req.payload, req.user,
                     IF req.reply = NoReply THEN AnyReply ELSE req.reply,
                     IF req.insert_outcome = "" THEN "ok" ELSE req.insert_outcome,
                     IF req.cost_outcome = "" THEN "ok" ELSE req.cost_outcome,
                     <<>>, <<>>, monitor, req.stored_at)

\* C22: under every interleaving of the requests in flight, each request
\* ends as it does when run alone; a request that succeeds has added exactly
\* one record, with an id of its own and the content of its own request, and
\* returns that record; the records of the other requests stay in the
\* collection, which holds one record per request that inserted one.
C22_RequestsAreIndependent ==
    /\ \A s \in Finished :
          LET req == inflight[s]
              alone == RunAlone(req)
              mine == {i \in 1..Len(analyses) : analyses[i].id = req.record_id}
          IN  /\ req.raised = alone.raised
              /\ (req.record_id = 0) = (alone.analyses = <<>>)
              /\ req.record_id # 0 =>
                    /\ Cardinality(mine) = 1
                    /\ \A i \in mine :
                          [analyses[i] EXCEPT !.id = 0] = [alone.analyses[1] EXCEPT !.id = 0]
              /\ req.raised = "" =>
                    /\ req.record_id # 0
                    /\ req.returned = <<[alone.returned[1] EXCEPT !.id = req.record_id]>>
    /\ \A s, t \in Finished :
          (s # t /\ inflight[s].record_id # 0) => inflight[s].record_id # inflight[t].record_id
    /\ Len(analyses) = Cardinality({s \in Finished : inflight[s].record_id # 0})

\* C22 witness: two requests for the same project were in flight together and
\* both succeeded; the one in the second slot stored its record first, with
\* another model reply than the first.
C22_Witness ==
    /\ Finished = {1, 2}
    /\ inflight[1].raised = "" /\ inflight[2].raised = ""
    /\ inflight[1].payload.project_id = inflight[2].payload.project_id
    /\ inflight[1].reply # inflight[2].reply
    /\ inflight[2].record_id = 1 /\ inflight[1].record_id = 2
    /\ Len(analyses) = 2

\* An optional UUID that is set, as a value comparable with None
Uuid(v) == [t |-> "uuid", v |-> v]

\* C23: the analysis a successful process_analysis returns carries in its
\* metadata the tokens_used and processing_time_ms the vision service
\* reported and a requested_by equal to the id of the requesting user.
C23_ReturnedMetadata ==
    (IsProcess /\ last.raised = "") =>
        /\ last.returned[1].metadata.tokens_used = last.reply.total_tokens
        /\ last.returned[1].metadata.processing_time_ms = last.reply.elapsed_ms
        /\ last.returned[1].metadata.requested_by = Uuid(last.user.id)

\* The requests in flight whose preprocess has returned
PastGather ==
    {s \in DOMAIN inflight :
        \/ inflight[s].pc = "awaiting_model"
        \/ inflight[s].pc = "done" /\ inflight[s].gathered}

\* C24: image ingestion is a join-all: when a request decides whether images
\* survived and issues the model call, every image task of the request has
\* finished, whatever the order in which the tasks finished or failed, and
\* the result of every task that succeeded is among the images used.
C24_JoinAll ==
    \A s \in PastGather :
        LET req == inflight[s]
            urls == req.payload.photo_urls
        IN  /\ Range(req.finished) = 1..Len(urls)
            /\ Len(req.finished) = Len(urls)
            /\ \A i \in 1..Len(urls) :
                  Remote[urls[i]].status = "image" =>
                      \E k \in 1..Len(req.images) : req.images[k].source_url = urls[i]
            /\ (req.images = <<>>) = NoImageSurvives(urls)
            /\ (req.pc = "done" /\ req.model_calls = 0) = (req.images = <<>>)

\* C24 witness: the task of the first URL failed before the other two tasks
\* finished, the last URL finished before the second, and the model call was
\* issued with both surviving images.
C24_Witness ==
    \E s \in PastGather :
        /\ inflight[s].pc = "awaiting_model"
        /\ inflight[s].finished = <<1, 3, 2>>
        /\ Remote[inflight[s].payload.photo_urls[1]].status = "http_error"
        /\ Len(inflight[s].images) = 2

\* The URLs of a request whose fetch and decode succeed, in request order
SurvivingUrls(urls) == SelectSeq(urls, LAMBDA u : Remote[u].status = "image")

\* C25: when at least one image of a request is fetched and decoded, the
\* failures of the others do not fail the run: the model is invoked once,
\* with exactly the surviving images in the order of their URLs in the
\* request, and the run ends as the run of the same request without the
\* failed URLs ends.
C25_SurvivorsInRequestOrder ==
    \A s \in PastGather :
        LET req == inflight[s]
            urls == req.payload.photo_urls
            trimmed == [req.payload EXCEPT !.photo_urls = SurvivingUrls(urls)]
        IN  SurvivingUrls(urls) # <<>> =>
                /\ req.sent.image_inputs = SurvivingUrls(urls)
                /\ [i \in 1..Len(req.images) |-> req.images[i].source_url] = SurvivingUrls(urls)
                /\ req.pc = "done" =>
                      /\ req.model_calls = 1
                      /\ req.raised # "ValueError: No valid images were processed for analysis"
                      /\ req.raised = RunAlone([req EXCEPT !.payload = trimmed]).raised

\* C25 witness: of three URLs the first failed; the third finished before the
\* second; the run succeeded on the two survivors.
C25_Witness ==
    \E s \in PastGather :
        /\ inflight[s].pc = "done"
        /\ inflight[s].raised = ""
        /\ inflight[s].finished = <<3, 1, 2>>
        /\ Len(inflight[s].payload.photo_urls) = 3
        /\ Len(inflight[s].sent.image_inputs) = 2

\* The text between the first "{" and the last "}" of the stripped reply
BraceSpan(text) ==
    LET content == Strip(text)
    IN  IF Find(content, "{") = 0 \/ RFind(content, "}") = 0 THEN <<>>
        ELSE SubSeq(content, Find(content, "{"), RFind(content, "}"))

IsJsonObject(parsed) == parsed.ok /\ parsed.value.t = "dict"

\* C26: response extraction yields a JSON object or a parse failure and
\* nothing else: a reply that parses as a JSON object is returned as is; a
\* reply that does not parse, but whose text from the first "{" to the last
\* "}" is a JSON object, yields that object; every other reply (no braces,
\* an unparsable span, JSON that is not an object) raises the parse failure,
\* and the pipeline stops before any persistence.
C26_ObjectOrParseFailure ==
    last.op = "parse_response" =>
        LET direct == json_loads(Strip(arg.content))
            span == json_loads(BraceSpan(arg.content))
        IN  /\ last.parsed.raised \in {"", "JSONDecodeError"}
            /\ last.parsed.raised = "" => last.parsed.value.t = "dict"
            /\ IsJsonObject(direct) => last.parsed = [raised |-> "", value |-> direct.value]
            /\ (~direct.ok /\ IsJsonObject(span)) =>
                  last.parsed = [raised |-> "", value |-> span.value]
            /\ (~IsJsonObject(direct) /\ ~(~direct.ok /\ IsJsonObject(span))) =>
                  /\ last.parsed.raised = "JSONDecodeError"
                  /\ last.raised # ""
            /\ analyses = last.analyses_before

\* C27: the quality score of a width x height image is
\* min(1.0, 0.1 + megapixels / 12) times the ratio penalty, rounded to two
\* decimals, where the penalty is 0.85 exactly when max(w,h) / min(w,h) is
\* strictly greater than 2.2 and 1.0 otherwise (so 1100x500 is not
\* penalised); the score lies in [0,1].
C27_QualityScore ==
    last.op = "estimate_quality" =>
        LET long == Max(last.width, last.height)
            short == Min(last.width, last.height)
            penalty == IF 10 * long > 22 * short THEN 85 ELSE 100
            base == Min(12000000, 1200000 + last.width * last.height)
        IN  /\ last.quality_score = RoundDiv(base * penalty, 12000000)
            /\ last.quality_score >= 0
            /\ last.quality_score <= 100

\* C28: every processed image is scored on its dimensions after the
\* downscale to a longest edge of at most 1600 pixels, so whatever the size
\* of the source its score is at most 0.31, and the heuristic confidence for
\* a reply without confidence is at most 0.74, below the default
\* smartscope_confidence_threshold.
C28_HeuristicBelowThreshold ==
    last.op = "calculate_confidence" =>
        /\ \A i \in 1..Len(last.images) :
              /\ Max(last.images[i].width, last.images[i].height) <= max_dimension
              /\ last.images[i].quality_score
                    = estimate_quality(last.images[i].width, last.images[i].height)
              /\ last.images[i].quality_score <= 31
        /\ last.confidence <= 74
        /\ last.confidence < smartscope_confidence_threshold

\* C28 witness: a 12000 x 12000 source was scaled to 1600 x 1600 and scored
\* 0.31, and with three scope items the heuristic confidence is 0.74.
C28_Witness ==
    /\ last.op = "calculate_confidence"
    /\ arg.sizes = <<[width |-> 12000, height |-> 12000]>>
    /\ last.images[1].width = 1600 /\ last.images[1].height = 1600
    /\ last.images[1].quality_score = 31
    /\ Len(last.data["scope_items"]) = 3
    /\ last.confidence = 74

\* C29: cost accounting never fails or undoes an analysis: when the cost
\* insert raises, or the cost monitor has no persistence client, a
\* process_analysis call whose analysis was inserted ends, returns and
\* stores exactly as it does with a working cost store, and the only
\* difference is that no cost record is written.
C29_CostFailureIsHarmless ==
    (IsProcess /\ last.inserts = 1 /\ last.insert_outcome = "ok"
        /\ (last.cost_outcome = "raise" \/ ~monitor.supabase)) =>
        LET healthy == process_analysis(last.payload, last.user, last.reply, "ok", "ok",
                                        last.analyses_before, last.costs_before,
                                        [monitor EXCEPT !.supabase = TRUE], now)
        IN  /\ last.raised = healthy.raised
            /\ last.raised = "" => last.returned = healthy.returned
            /\ analyses = healthy.analyses
            /\ Len(analyses) = Len(last.analyses_before) + 1
            /\ costs = last.costs_before

\* C29 witness: the cost insert raised for an analysis with reported tokens;
\* the analysis was returned and stored, and no cost record was written.
C29_Witness ==
    /\ IsProcess
    /\ last.raised = ""
    /\ last.cost_outcome = "raise"
    /\ last.reply.total_tokens = Num(200)
    /\ Len(last.returned) = 1
    /\ analyses[Len(analyses)].id = last.returned[1].id
    /\ costs = last.costs_before

\* The requests to paths under /api/auth that were passed on for a client
\* in the window of rate_limit_period seconds ending at t
AdmittedInWindow(log, client, t) ==
    {k \in 1..Len(log) :
        /\ log[k].client = client
        /\ StartsWith(log[k].path, P_auth_prefix)
        /\ log[k].at > t - rate_limit_period
        /\ log[k].at <= t}

\* C30: for requests to paths under /api/auth, a client (the first
\* X-Forwarded-For entry, or else the peer address) is admitted at most
\* rate_limit_requests times within any window of rate_limit_period seconds:
\* once that many of its requests were admitted inside the window, its next
\* request is answered with 429 and a Retry-After header and is not passed on.
C30_AuthRateLimited ==
    /\ \A k \in 1..Len(admitted) :
          Cardinality(AdmittedInWindow(admitted, admitted[k].client, admitted[k].at))
              <= rate_limit_requests
    /\ (/\ last.op = "rate_limit_middleware"
        /\ StartsWith(last.request.path, P_auth_prefix)
        /\ Cardinality(AdmittedInWindow(last.admitted_before, last.client, now))
              >= rate_limit_requests)
       => /\ last.status = "429"
          /\ IsNumber(last.retry_after)
          /\ admitted = last.admitted_before

====
